---- MODULE Spec2Model ----
(***************************************************************************)
(* A model of polarhouse: the conversions between Clickhouse native blocks *)
(* and polars dataframes (src/src/c2p.rs, src/src/p2c.rs), the struct      *)
(* flattener (src/src/structs.rs) and the HTTP block adapter               *)
(* (src/src/clickhouse.rs).                                                *)
(*                                                                         *)
(* Conventions.                                                            *)
(*  - A column NAME is a string; the only thing the code ever does with a  *)
(*    name is to split it at '.', to test whether it contains a '.', and   *)
(*    to join two names with a '.'.  A name is therefore modelled as the   *)
(*    non-empty sequence of its dot-free segments: "a.b" is <<"a","b">>.   *)
(*  - A Series is a record [name, kind, val, fields]: a leaf carries its   *)
(*    data in val, a struct carries its sub-columns in fields.             *)
(*  - Every type constructor that wraps another type (List, Array,         *)
(*    Nullable, LowCardinality, ClickhouseType::Native, ...) wraps exactly *)
(*    one: a type is modelled as the sequence of its tags from the         *)
(*    outermost to the innermost, List(Int64) being <<"List", "Int64">>    *)
(*    and ClickhouseType::Native(Array(UInt8)) <<"Native","Array","UInt8">>*)
(***************************************************************************)
EXTENDS Integers, Sequences, FiniteSets, TLC

VARIABLES
    \* ---- struct flattener (structs.rs) ----
    s_pc,      \* "start" | "flattened" | "done"
    s_df,      \* the dataframe given to flatten: a sequence of Series
    s_flat,    \* the columns returned by flatten
    s_out,     \* the columns returned by unflatten
    \* ---- type mapping (p2c.rs / c2p.rs TryFrom impls) ----
    t_dt,      \* a polars DataType
    t_cht,     \* a ClickhouseType
    t_p2c,     \* ClickhouseType::try_from(&t_dt), once computed
    t_c2p,     \* DataType::try_from(&t_cht), once computed
    t_back,    \* DataType::try_from(&ClickhouseType::try_from(&t_dt)?), once computed
    \* ---- value codec (p2c.rs series_to_values, c2p.rs values_to_series) ----
    c_pc,      \* "encode", "check" (the checking loop), "done"
    c_series,  \* the Series given to series_to_values
    c_type,    \* the ClickhouseType both functions are given
    c_values,  \* the Vec<Value> given to values_to_series
    c_checked, \* how many entries of c_values the checking loop has passed
    c_result,  \* what values_to_series returned
    \* ---- insertion (p2c.rs insert_df) ----
    i_pc,      \* "start", "loop" (the for loop over the blocks), "done"
    i_schema,  \* self.types: IndexMap<String, ClickhouseType>
    i_df,      \* the dataframe given to insert_df
    i_defaults,\* the ValueMap given to insert_df
    i_rechunk, \* df.should_rechunk()
    i_client,  \* "native" or "http"
    i_accept,  \* how many insertions the server will accept before failing one
    i_iters,   \* BlockIterator::iters
    i_sent,    \* the blocks handed to insert_native_raw, in order
    i_stored,  \* the blocks a transport consumed and sent, which the server took
    i_result,  \* what insert_df returned
    \* ---- retrieval (c2p.rs get_df_query, clickhouse.rs query_raw) ----
    q_pc,      \* "wait", "start", "raw" (query_raw returned), "stream", "done"
    q_client,  \* "native" or "http"
    q_status,  \* how the request fares: "ok", "request", "server"
    q_response,\* what the connection delivers in all: Ok(block) and Err items
    q_source,  \* what of q_response is still to come
    q_head,    \* the copies of the first block the HTTP adapter still holds
    q_emitted, \* the items the stream returned by query_raw has yielded
    q_types,   \* the `types` given to get_df_query
    q_ch_types,\* ch_types
    q_series,  \* series, in get_df_stream
    q_result,  \* what get_df_query returned
    q_rows     \* the items the stream returned by ClientGeneric::query has yielded

structVars == <<s_pc, s_df, s_flat, s_out>>
typeVars == <<t_dt, t_cht, t_p2c, t_c2p, t_back>>
codecVars == <<c_pc, c_series, c_type, c_values, c_checked, c_result>>
insertVars == <<i_pc, i_schema, i_df, i_defaults, i_rechunk, i_client, i_accept,
                i_iters, i_sent, i_stored, i_result>>
queryVars == <<q_pc, q_client, q_status, q_response, q_source, q_head, q_emitted, q_types,
               q_ch_types, q_series, q_result, q_rows>>

vars == <<structVars, typeVars, codecVars, insertVars, queryVars>>

(***************************************************************************)
(* Generic helpers on sequences.                                           *)
(***************************************************************************)
Range(s) == {s[i] : i \in 1..Len(s)}

RECURSIVE Concat(_)
\* The concatenation of a sequence of sequences (Iterator::flat_map / collect).
Concat(ss) == IF ss = <<>> THEN <<>> ELSE Head(ss) \o Concat(Tail(ss))

NamesOf(cols) == [i \in 1..Len(cols) |-> cols[i].name]

UniqueNames(cols) == \A i, j \in 1..Len(cols) : cols[i].name = cols[j].name => i = j

(***************************************************************************)
(* Names (strings seen through their '.' separators).                      *)
(***************************************************************************)
\* k.contains('.')
ContainsDot(name) == Len(name) > 1

\* k.split('.').next().unwrap()
SplitPrefix(name) == Head(name)

\* it.join(".") on the rest of the split
SplitSuffix(name) == Tail(name)

\* format!("{}.{}", s.name(), field.name())
DotJoinSwapped(prefix, name) == name \o prefix
DotJoin(prefix, name) == prefix \o name

Leaf(name, val) == [name |-> name, kind |-> "leaf", val |-> val, fields |-> <<>>]

\* StructChunked::new(name, fields).into_series()
StructSeries(name, fields) == [name |-> name, kind |-> "struct", val |-> 0, fields |-> fields]

\* Series::rename
Rename(col, name) == [col EXCEPT !.name = name]

(***************************************************************************)
(* IndexMap<String, Series>: a sequence of Series with unique names.       *)
(* Collecting (key, value) pairs inserts them one by one: a key seen again *)
(* keeps its first position and takes the later value.                     *)
(***************************************************************************)
IndexMapInsert(m, col) ==
    IF \E i \in 1..Len(m) : m[i].name = col.name
    THEN [i \in 1..Len(m) |-> IF m[i].name = col.name THEN col ELSE m[i]]
    ELSE Append(m, col)

RECURSIVE IndexMapCollectFrom(_, _)
IndexMapCollectFrom(m, cols) ==
    IF cols = <<>> THEN m
    ELSE IndexMapCollectFrom(IndexMapInsert(m, Head(cols)), Tail(cols))

IndexMapCollect(cols) == IndexMapCollectFrom(<<>>, cols)

(***************************************************************************)
(* structs.rs: flatten                                                     *)
(***************************************************************************)
\* As flatten_structchunked, a field that is a struct taken as it is.
flatten_structchunked_one_level(s) ==
    [i \in 1..Len(s.fields) |-> Rename(s.fields[i], DotJoin(s.name, s.fields[i].name))]

RECURSIVE flatten_structchunked(_)
flatten_structchunked(s) ==
    LET sub == Concat([i \in 1..Len(s.fields) |->
                   IF s.fields[i].kind = "struct"
                   THEN flatten_structchunked(s.fields[i])
                   ELSE <<s.fields[i]>>])
    IN  [i \in 1..Len(sub) |-> Rename(sub[i], DotJoin(s.name, sub[i].name))]

flatten(df) ==
    Concat([i \in 1..Len(df) |->
        IF df[i].kind = "struct" THEN flatten_structchunked(df[i]) ELSE <<df[i]>>])

(***************************************************************************)
(* structs.rs: unflatten                                                   *)
(***************************************************************************)
\* The keys of the prefix map `structs`, in insertion order.
RECURSIVE PrefixesFrom(_, _)
PrefixesFrom(acc, series) ==
    IF series = <<>> THEN acc
    ELSE LET k == Head(series).name
             p == SplitPrefix(k)
         IN  PrefixesFrom(IF ContainsDot(k) /\ p \notin Range(acc) THEN Append(acc, p) ELSE acc,
                          Tail(series))

Prefixes(series) == PrefixesFrom(<<>>, series)

\* structs[prefix]: the dotted columns of that prefix, renamed to their suffix.
FieldsOfPrefix(series, prefix) ==
    LET dotted == SelectSeq(series, LAMBDA c : ContainsDot(c.name) /\ SplitPrefix(c.name) = prefix)
    IN  IndexMapCollect([i \in 1..Len(dotted) |-> Rename(dotted[i], SplitSuffix(dotted[i].name))])

\* The last loop of unflatten: `structs` loses a prefix when its struct is emitted.
RECURSIVE UnflattenEmit(_, _, _)
UnflattenEmit(series, structs, made) ==
    IF series = <<>> THEN <<>>
    ELSE LET c == Head(series)
             p == SplitPrefix(c.name)
         IN  IF p \in structs
             THEN <<made[p]>> \o UnflattenEmit(Tail(series), structs \ {p}, made)
             ELSE IF ContainsDot(c.name)
                  THEN UnflattenEmit(Tail(series), structs, made)
                  ELSE <<c>> \o UnflattenEmit(Tail(series), structs, made)

RECURSIVE unflatten(_)
unflatten(series) ==
    LET ps   == Prefixes(series)
        made == [p \in Range(ps) |-> StructSeries(<<p>>, unflatten(FieldsOfPrefix(series, p)))]
    IN  IndexMapCollect(UnflattenEmit(series, Range(ps), made))

(***************************************************************************)
(* Type mapping.                                                           *)
(***************************************************************************)
Ok(v) == [ok |-> TRUE, err |-> "", v |-> v]
Err(e, v) == [ok |-> FALSE, err |-> e, v |-> v]
Pending == [ok |-> FALSE, err |-> "pending", v |-> <<>>]

\* The scalar types both vocabularies share, tag for tag.
Scalars == {"String", "UInt8", "UInt16", "UInt32", "UInt64",
            "Int8", "Int16", "Int32", "Int64", "Float32", "Float64"}

\* The Nullable variant of ClickhouseType, seen as a klickhouse::Type.
KlickhouseTypeOfNullable(inner) == <<"Nullable">> \o inner

RECURSIVE KlickhouseTypeOf(_)
\* impl From<ClickhouseType> for klickhouse::Type
KlickhouseTypeOf(source) ==
    IF Head(source) = "Native" THEN Tail(source)
    ELSE IF Head(source) = "Bool" THEN <<"UInt8">>
    ELSE KlickhouseTypeOfNullable(KlickhouseTypeOf(Tail(source)))

\* impl From<klickhouse::Type> for ClickhouseType
ClickhouseTypeFrom(kt) == <<"Native">> \o kt

\* ClickhouseType::nullable
nullable(ct) == <<"CHNullable">> \o ct

\* DataType::UInt8 => Self::Native(klickhouse::Type::UInt8), and so on.
NativeScalarNarrowed(tag) == <<"Native", IF tag = "Int64" THEN "Int32" ELSE tag>>
NativeScalar(tag) == <<"Native", tag>>

RECURSIVE ClickhouseType_try_from(_)
\* impl TryFrom<&DataType> for ClickhouseType
ClickhouseType_try_from(source) ==
    LET tag == Head(source)
    IN  IF tag \in Scalars /\ Len(source) = 1 THEN Ok(NativeScalar(tag))
        ELSE IF tag = "Boolean" /\ Len(source) = 1 THEN Ok(<<"Bool">>)
        ELSE IF tag \in {"CategoricalPhysical", "CategoricalLexical"} /\ Len(source) = 1
             THEN Ok(<<"Native", "LowCardinality", "String">>)
        ELSE IF tag = "List" /\ Len(source) > 1
             THEN LET inner == ClickhouseType_try_from(Tail(source))
                  IN  IF inner.ok
                      THEN Ok(<<"Native", "Array">> \o KlickhouseTypeOf(inner.v))
                      ELSE inner
        ELSE Err("UnsupportedPolarsType", source)

RECURSIVE DataType_try_from_any_low_cardinality(_)
DataType_try_from_any_low_cardinality(source) ==
    LET tag == Head(source)
        kt  == Tail(source)
    IN  IF tag = "Bool" THEN Ok(<<"Boolean">>)
        ELSE IF tag = "CHNullable" THEN DataType_try_from_any_low_cardinality(Tail(source))
        ELSE IF tag = "Native" /\ Len(kt) = 1 /\ kt[1] \in Scalars THEN Ok(kt)
        ELSE IF tag = "Native" /\ kt = <<"Uuid">> THEN Ok(<<"String">>)
        ELSE IF tag = "Native" /\ Len(kt) > 1 /\ kt[1] = "Array"
             THEN LET inner == DataType_try_from_any_low_cardinality(ClickhouseTypeFrom(Tail(kt)))
                  IN  IF inner.ok THEN Ok(<<"List">> \o inner.v) ELSE inner
        ELSE IF tag = "Native" /\ Len(kt) > 1 /\ kt[1] = "LowCardinality"
             THEN Ok(<<"CategoricalPhysical">>)
        ELSE IF tag = "Native" /\ Len(kt) > 1 /\ kt[1] = "Nullable"
             THEN DataType_try_from_any_low_cardinality(nullable(ClickhouseTypeFrom(Tail(kt))))
        ELSE Err("UnsupportedClickhouseType", source)

RECURSIVE DataType_try_from(_)
\* impl TryFrom<&ClickhouseType> for DataType
DataType_try_from(source) ==
    LET tag == Head(source)
        kt  == Tail(source)
    IN  IF tag = "Bool" THEN Ok(<<"Boolean">>)
        ELSE IF tag = "CHNullable" THEN DataType_try_from(Tail(source))
        ELSE IF tag = "Native" /\ Len(kt) = 1 /\ kt[1] \in Scalars THEN Ok(kt)
        ELSE IF tag = "Native" /\ kt = <<"Uuid">> THEN Ok(<<"String">>)
        ELSE IF tag = "Native" /\ Len(kt) > 1 /\ kt[1] = "Array"
             THEN LET inner == DataType_try_from(ClickhouseTypeFrom(Tail(kt)))
                  IN  IF inner.ok THEN Ok(<<"List">> \o inner.v) ELSE inner
        ELSE IF tag = "Native" /\ kt = <<"LowCardinality", "String">>
             THEN Ok(<<"CategoricalPhysical">>)
        ELSE IF tag = "Native" /\ Len(kt) > 1 /\ kt[1] = "Nullable"
             THEN DataType_try_from(nullable(ClickhouseTypeFrom(Tail(kt))))
        ELSE Err("UnsupportedClickhouseType", source)


(***************************************************************************)
(* Value sequences.  A Vec<klickhouse::Value>, a column of a Series and an *)
(* iterator over either hold up to several hundred thousand entries; they  *)
(* are kept run-length encoded, as sequences of runs [v, n] (n >= 1 copies *)
(* of v) in which no two neighbouring runs carry the same v, so that equal *)
(* sequences have equal encodings.                                         *)
(***************************************************************************)
Run(v, n) == [v |-> v, n |-> n]

RECURSIVE RLen(_)
\* Vec::len / Series::len
RLen(rs) == IF rs = <<>> THEN 0 ELSE Head(rs).n + RLen(Tail(rs))

RECURSIVE RNorm(_)
RNorm(rs) ==
    IF rs = <<>> THEN <<>>
    ELSE IF Head(rs).n = 0 THEN RNorm(Tail(rs))
    ELSE IF Len(rs) >= 2 /\ rs[2].n = 0 THEN RNorm(<<rs[1]>> \o SubSeq(rs, 3, Len(rs)))
    ELSE IF Len(rs) >= 2 /\ rs[1].v = rs[2].v
         THEN RNorm(<<Run(rs[1].v, rs[1].n + rs[2].n)>> \o SubSeq(rs, 3, Len(rs)))
    ELSE <<Head(rs)>> \o RNorm(Tail(rs))

\* Series::extend / chaining two sequences
RCat(a, b) == RNorm(a \o b)

RTakeAll(rs, k) == rs

RECURSIVE RTake(_, _)
\* The first k entries (Iterator::take(k).collect()).
RTake(rs, k) ==
    IF k = 0 \/ rs = <<>> THEN <<>>
    ELSE IF Head(rs).n <= k THEN <<Head(rs)>> \o RTake(Tail(rs), k - Head(rs).n)
    ELSE <<Run(Head(rs).v, k)>>

RECURSIVE RDrop(_, _)
\* What an iterator still holds after k entries were taken from it.
RDrop(rs, k) ==
    IF k = 0 \/ rs = <<>> THEN rs
    ELSE IF Head(rs).n <= k THEN RDrop(Tail(rs), k - Head(rs).n)
    ELSE <<Run(Head(rs).v, Head(rs).n - k)>> \o Tail(rs)

\* The entries that occur in rs.
RValues(rs) == {rs[i].v : i \in 1..Len(rs)}

\* Iterator::map(f).collect(), f a function on the entries of rs.
RMap(f, rs) == RNorm([i \in 1..Len(rs) |-> Run(f[rs[i].v], rs[i].n)])

RepeatOnce(v, n) == <<Run(v, 1)>>

\* std::iter::repeat(v).take(n).collect()
RepeatTake(v, n) == IF n = 0 THEN <<>> ELSE <<Run(v, n)>>

(***************************************************************************)
(* klickhouse::Value: [t, x, a], the tag, the payload of a scalar, the     *)
(* entries of an array.  A polars cell: [null, x, l], l the entries of a   *)
(* list cell.  A leaf Series carries val = [dtype, data].                  *)
(***************************************************************************)
Null == [t |-> "Null", x |-> 0, a |-> <<>>]
Scalar(t, x) == [t |-> t, x |-> x, a |-> <<>>]
Array(a) == [t |-> "Array", x |-> 0, a |-> a]
\* Stands in an iterator for an entry whose evaluation panics (a failed unwrap).
PanicValue == [t |-> "panic", x |-> 0, a |-> <<>>]

NullCell == [null |-> TRUE, x |-> 0, l |-> <<>>]
Cell(x) == [null |-> FALSE, x |-> x, l |-> <<>>]
ListCell(l) == [null |-> FALSE, x |-> 0, l |-> l]

SeriesData(dtype, data) == [dtype |-> dtype, data |-> data]

RECURSIVE guess_type(_)
\* klickhouse::Value::guess_type: an array is guessed from its first entry, an
\* empty one as Array(String); Null as Nullable(String).
guess_type(val) ==
    IF val.t = "Null" THEN <<"Nullable", "String">>
    ELSE IF val.t = "Array"
         THEN <<"Array">> \o (IF val.a = <<>> THEN <<"String">> ELSE guess_type(val.a[1].v))
    ELSE <<val.t>>

\* klickhouse::Type::strip_null
strip_null(kt) == IF Head(kt) = "Nullable" THEN Tail(kt) ELSE kt

\* klickhouse::Type::strip_low_cardinality
strip_low_cardinality(kt) == IF Head(kt) = "LowCardinality" THEN Tail(kt) ELSE kt

\* String::from_utf8_lossy(&val).to_string(): payload -1 stands for bytes that are
\* not UTF-8, -2 for the replacement text they decode to.
from_utf8_lossy(x) == IF x = -1 THEN -2 ELSE x

\* klickhouse::Uuid::to_string: the payload k of a Uuid prints as the string 1000 + k.
uuid_to_string(x) == 1000 + x

(***************************************************************************)
(* c2p.rs: values_to_series                                                *)
(***************************************************************************)
\* let type_k = klickhouse::Type::from(type_.clone()).strip_null().strip_low_cardinality()
TypeK(type_) == strip_low_cardinality(strip_null(KlickhouseTypeOf(type_)))

ValueRefusedByOuterTag(val, type_k) == val # Null /\ Head(guess_type(val)) # Head(type_k)

ValueRefusedNever(val, type_k) == FALSE

\* One iteration of the checking loop: the value is refused.
ValueRefused(val, type_k) == val # Null /\ guess_type(val) # type_k

\* The first value the checking loop refuses (0: none).
FirstRefused(values, type_k) ==
    LET bad == {i \in 1..Len(values) : ValueRefused(values[i].v, type_k)}
    IN  IF bad = {} THEN 0 ELSE CHOOSE i \in bad : \A j \in bad : i <= j

MismatchingValueType(found, expected) ==
    Err("MismatchingValueType", <<found, expected>>)

\* The outcome of a panic (unreachable!, a failed unwrap).
Panic == Err("panic", <<>>)

\* macro extract!: Value::$t(val) => Some(f(val)), Null => None, _ => unreachable!
extract(values, t, f, dtype) ==
    IF \E val \in RValues(values) : val.t \notin {t, "Null"} THEN Panic
    ELSE Ok(SeriesData(dtype,
                       RMap([val \in RValues(values) |->
                                IF val.t = "Null" THEN NullCell ELSE Cell(f[val.x])],
                            values)))

\* The payloads the closure given to extract! is applied to.
Payloads(values) == {val.x : val \in RValues(values)}

\* |val: u8| val > 0
bool_of_u8(x) == IF x > 0 THEN 1 ELSE 0

RECURSIVE values_to_series(_, _), ConvertValues(_, _), ConvertArrays(_, _, _)

\* The Array arm: every value is decoded against the inner type; the first
\* failure, in order, is the result.
ConvertArrays(values, inner, acc) ==
    IF values = <<>> THEN Ok(acc)
    ELSE LET val == Head(values).v
         IN  IF val.t = "Array"
             THEN LET sub == values_to_series(val.a, inner)
                  IN  IF sub.ok
                      THEN ConvertArrays(Tail(values), inner,
                                         RCat(acc, <<Run(ListCell(sub.v.data), Head(values).n)>>))
                      ELSE sub
             ELSE IF val.t = "Null" THEN Err("UnexpectedNull", <<"In array">>)
             ELSE Err("UnsupportedClickhouseType", ClickhouseTypeFrom(guess_type(val)))

\* The `match type_` of values_to_series.
ConvertValues(values, type_) ==
    LET tag == Head(type_)
        kt  == Tail(type_)
    IN  IF tag = "Native" /\ kt = <<"String">>
        THEN extract(values, "String", [x \in Payloads(values) |-> from_utf8_lossy(x)],
                     <<"String">>)
        ELSE IF tag = "Bool"
             THEN extract(values, "UInt8", [x \in Payloads(values) |-> bool_of_u8(x)],
                          <<"Boolean">>)
        ELSE IF tag = "Native" /\ kt = <<"Uuid">>
             THEN extract(values, "Uuid", [x \in Payloads(values) |-> uuid_to_string(x)],
                          <<"String">>)
        ELSE IF tag = "Native" /\ Len(kt) = 1 /\ kt[1] \in Scalars
             THEN extract(values, kt[1], [x \in Payloads(values) |-> x], kt)
        ELSE IF tag = "Native" /\ kt = <<"LowCardinality", "String">>
             THEN extract(values, "String", [x \in Payloads(values) |-> from_utf8_lossy(x)],
                          <<"CategoricalPhysical">>)
        ELSE IF tag = "CHNullable" THEN values_to_series(values, Tail(type_))
        ELSE IF tag = "Native" /\ Len(kt) > 1 /\ kt[1] = "Nullable"
             THEN values_to_series(values, ClickhouseTypeFrom(Tail(kt)))
        ELSE IF tag = "Native" /\ Len(kt) > 1 /\ kt[1] = "Array"
             THEN LET inner == ClickhouseTypeFrom(Tail(kt))
                      cells == ConvertArrays(values, inner, <<>>)
                      elem  == DataType_try_from(inner)
                  IN  IF ~cells.ok THEN cells
                      ELSE Ok(SeriesData(<<"List">> \o (IF elem.ok THEN elem.v ELSE <<"Null">>),
                                         cells.v))
        ELSE Err("UnsupportedClickhouseType", type_)

values_to_series(values, type_) ==
    LET type_k == TypeK(type_)
        bad    == FirstRefused(values, type_k)
    IN  IF bad # 0
        THEN MismatchingValueType(guess_type(values[bad].v), type_k)
        ELSE ConvertValues(values, type_)

(***************************************************************************)
(* p2c.rs: series_to_values                                                *)
(***************************************************************************)
\* macro extract_vals!: $series.$f() fails unless the series has that dtype.
extract_vals(series, t, dtype) ==
    IF series.dtype # dtype THEN Err("MismatchingSeriesType", series.dtype)
    ELSE Ok(RMap([c \in RValues(series.data) |-> IF c.null THEN Null ELSE Scalar(t, c.x)],
                 series.data))

IsCategorical(dtype) == dtype \in {<<"CategoricalPhysical">>, <<"CategoricalLexical">>}

\* Box<dyn Iterator>::collect() of an array's entries: it panics with the first
\* entry that does.
CollectArray(sub) ==
    IF ~sub.ok \/ PanicValue \in RValues(sub.v) THEN PanicValue ELSE Array(sub.v)

RECURSIVE series_to_values(_, _)
series_to_values(series, type_) ==
    LET tag == Head(type_)
        kt  == Tail(type_)
    IN  IF tag = "Native" /\ Len(kt) = 1 /\ kt[1] \in Scalars
        THEN extract_vals(series, kt[1], kt)
        ELSE IF tag = "Bool" THEN extract_vals(series, "UInt8", <<"Boolean">>)
        ELSE IF tag = "Native" /\ kt = <<"LowCardinality", "String">>
             THEN IF ~IsCategorical(series.dtype) THEN Panic
                  ELSE Ok(RMap([c \in RValues(series.data) |->
                                  IF c.null THEN PanicValue ELSE Scalar("String", c.x)],
                               series.data))
        ELSE IF tag = "Native" /\ Len(kt) > 1 /\ kt[1] = "Array"
             THEN IF Head(series.dtype) # "List"
                  THEN Err("MismatchingSeriesType", series.dtype)
                  ELSE Ok(RMap([c \in RValues(series.data) |->
                                 IF c.null THEN Null
                                 ELSE CollectArray(
                                        series_to_values(SeriesData(Tail(series.dtype), c.l),
                                                         ClickhouseTypeFrom(Tail(kt))))],
                               series.data))
        ELSE IF tag = "Native" /\ Len(kt) > 1 /\ kt[1] = "Nullable"
             THEN series_to_values(series, ClickhouseTypeFrom(Tail(kt)))
        ELSE IF tag = "CHNullable" THEN series_to_values(series, Tail(type_))
        ELSE Err("UnsupportedClickhouseType", type_)

(***************************************************************************)
(* p2c.rs: blocks_from_df, BlockIntoIterator, BlockIterator.               *)
(* An IndexMap entry is a record with a `name`: [name, type] in a type     *)
(* map, [name, values] in column_data and iters, [name, v] in a ValueMap.  *)
(***************************************************************************)
KeySet(m) == {m[i].name : i \in 1..Len(m)}

\* IndexMap::get(key).unwrap()
Lookup(m, key) == m[CHOOSE i \in 1..Len(m) : m[i].name = key]

\* The first entry of rs that is not Ok, else Ok of the values.
TryCollect(rs) ==
    LET bad == {i \in 1..Len(rs) : ~rs[i].ok}
    IN  IF bad = {} THEN Ok([i \in 1..Len(rs) |-> rs[i].v])
        ELSE rs[CHOOSE i \in bad : \A j \in bad : i <= j]

blocks_from_df_subset_only(df, types, defaults) ==
    IF ~(KeySet(df) \subseteq KeySet(types))
    THEN Err("MismatchingColumns", KeySet(df) \ KeySet(types))
    ELSE Ok([df |-> df, cols |-> types])

blocks_from_df(df, types, defaults) ==
    LET df_cols    == KeySet(df)
        table_cols == KeySet(types)
    IN  IF ~(df_cols \subseteq table_cols)
        THEN Err("MismatchingColumns", df_cols \ table_cols)
        ELSE IF df_cols \cup KeySet(defaults) # table_cols
             THEN Err("MismatchingColumns", table_cols \ (df_cols \cup KeySet(defaults)))
        ELSE Ok([df |-> df, cols |-> types])

try_into_iter_of_df_columns(blocks) ==
    LET iters == TryCollect([i \in 1..Len(blocks.df) |->
                    LET col    == blocks.df[i]
                        values == series_to_values(col.val, Lookup(blocks.cols, col.name).type)
                    IN  IF values.ok THEN Ok([name |-> col.name, values |-> values.v])
                        ELSE values])
        column_types == [i \in 1..Len(blocks.df) |->
                            [name |-> blocks.df[i].name,
                             type |-> KlickhouseTypeOf(Lookup(blocks.cols, blocks.df[i].name).type)]]
    IN  IF iters.ok
        THEN Ok([column_types |-> column_types, iters |-> IndexMapCollect(iters.v)])
        ELSE iters

try_into_iter(blocks) ==
    LET column_types == [i \in 1..Len(blocks.cols) |->
                            [name |-> blocks.cols[i].name,
                             type |-> KlickhouseTypeOf(blocks.cols[i].type)]]
        iters == TryCollect([i \in 1..Len(blocks.df) |->
                    LET col    == blocks.df[i]
                        values == series_to_values(col.val, Lookup(blocks.cols, col.name).type)
                    IN  IF values.ok THEN Ok([name |-> col.name, values |-> values.v])
                        ELSE values])
    IN  IF iters.ok
        THEN Ok([column_types |-> column_types, iters |-> IndexMapCollect(iters.v)])
        ELSE iters

\* it.take(200_000)
BatchSize == 200000

\* As BlockIterator_next, the sequence ending at the first block that is not full.
BlockIterator_next_full_only(it) ==
    LET column_data == [i \in 1..Len(it.iters) |->
                           [name   |-> it.iters[i].name,
                            values |-> RTake(it.iters[i].values, BatchSize)]]
        rest == [i \in 1..Len(it.iters) |->
                    [name   |-> it.iters[i].name,
                     values |-> RDrop(it.iters[i].values, BatchSize)]]
        rows == IF column_data = <<>> THEN 0 ELSE RLen(column_data[1].values)
    IN  IF \E i \in 1..Len(column_data) : PanicValue \in RValues(column_data[i].values)
        THEN [kind |-> "panic"]
        ELSE IF rows < BatchSize THEN [kind |-> "none"]
        ELSE [kind  |-> "block",
              block |-> [rows |-> rows, column_types |-> it.column_types,
                         column_data |-> column_data],
              iters |-> rest]

\* BlockIterator::next: [panic], [none], or [block] with what the iterators keep.
BlockIterator_next(it) ==
    LET column_data == [i \in 1..Len(it.iters) |->
                           [name   |-> it.iters[i].name,
                            values |-> RTake(it.iters[i].values, BatchSize)]]
        rest == [i \in 1..Len(it.iters) |->
                    [name   |-> it.iters[i].name,
                     values |-> RDrop(it.iters[i].values, BatchSize)]]
        rows == IF column_data = <<>> THEN 0 ELSE RLen(column_data[1].values)
    IN  IF \E i \in 1..Len(column_data) : PanicValue \in RValues(column_data[i].values)
        THEN [kind |-> "panic"]
        ELSE IF rows = 0 THEN [kind |-> "none"]
        ELSE [kind  |-> "block",
              block |-> [rows |-> rows, column_types |-> it.column_types,
                         column_data |-> column_data],
              iters |-> rest]

RECURSIVE WithDefaultsOfBatch(_, _, _)
WithDefaultsOfBatch(column_data, defaults, rows) ==
    IF defaults = <<>> THEN column_data
    ELSE LET d == Head(defaults)
         IN  WithDefaultsOfBatch(IF d.name \in KeySet(column_data) THEN column_data
                                 ELSE Append(column_data,
                                             [name |-> d.name, values |-> RepeatTake(d.v, BatchSize)]),
                                 Tail(defaults), rows)

RECURSIVE WithDefaultsOverwriting(_, _, _)
\* As WithDefaults, a default taking the place of a column the block has.
WithDefaultsOverwriting(column_data, defaults, rows) ==
    IF defaults = <<>> THEN column_data
    ELSE LET d     == Head(defaults)
             entry == [name |-> d.name, values |-> RepeatTake(d.v, rows)]
         IN  WithDefaultsOverwriting(
                 IF d.name \in KeySet(column_data)
                 THEN [i \in 1..Len(column_data) |->
                          IF column_data[i].name = d.name THEN entry ELSE column_data[i]]
                 ELSE Append(column_data, entry),
                 Tail(defaults), rows)

RECURSIVE WithDefaults(_, _, _)
\* for (k, v) in defaults: column_data.entry(k).or_insert_with(repeat(v).take(rows))
WithDefaults(column_data, defaults, rows) ==
    IF defaults = <<>> THEN column_data
    ELSE LET d == Head(defaults)
         IN  WithDefaults(IF d.name \in KeySet(column_data) THEN column_data
                          ELSE Append(column_data,
                                      [name |-> d.name, values |-> RepeatTake(d.v, rows)]),
                          Tail(defaults), rows)

(***************************************************************************)
(* c2p.rs: get_df_stream and get_df_query.                                 *)
(***************************************************************************)
\* get_df_stream: one empty Series per entry of ch_types.
NewSeries(ch_types) ==
    TryCollect([i \in 1..Len(ch_types) |->
        LET type_ == DataType_try_from(ch_types[i].type)
        IN  IF type_.ok THEN Ok(Leaf(ch_types[i].name, SeriesData(type_.v, <<>>)))
            ELSE type_])

RECURSIVE ExtendSeriesSkippingUnknown(_, _, _)
ExtendSeriesSkippingUnknown(series, ch_types, column_data) ==
    IF column_data = <<>> THEN Ok(series)
    ELSE LET col    == Head(column_data).name
             values == Head(column_data).values
         IN  IF col \notin KeySet(series)
             THEN ExtendSeriesSkippingUnknown(series, ch_types, Tail(column_data))
             ELSE LET decoded == values_to_series(values, Lookup(ch_types, col).type)
                  IN  IF ~decoded.ok THEN decoded
                      ELSE ExtendSeriesSkippingUnknown(
                             [i \in 1..Len(series) |->
                                IF series[i].name = col
                                THEN Leaf(col, SeriesData(series[i].val.dtype,
                                                          RCat(series[i].val.data, decoded.v.data)))
                                ELSE series[i]],
                             ch_types, Tail(column_data))

RECURSIVE ExtendSeries(_, _, _)
\* The closure given to and_then, on the column_data of one block.
ExtendSeries(series, ch_types, column_data) ==
    IF column_data = <<>> THEN Ok(series)
    ELSE LET col    == Head(column_data).name
             values == Head(column_data).values
         IN  IF col \notin KeySet(series) THEN Err("MissingColumnLocal", col)
             ELSE LET decoded == values_to_series(values, Lookup(ch_types, col).type)
                  IN  IF ~decoded.ok THEN decoded
                      ELSE ExtendSeries(
                             [i \in 1..Len(series) |->
                                IF series[i].name = col
                                THEN Leaf(col, SeriesData(series[i].val.dtype,
                                                          RCat(series[i].val.data, decoded.v.data)))
                                ELSE series[i]],
                             ch_types, Tail(column_data))

FinishStreamKeepingAll(series) ==
    LET lengths == {RLen(series[i].val.data) : i \in 1..Len(series)}
    IN  IF lengths = {} THEN Ok(<<>>)
        ELSE IF Cardinality(lengths) # 1 THEN Err("MismatchingLengths", lengths)
        ELSE Ok(unflatten(series))

FinishStreamUnchecked(series) ==
    Ok(unflatten(SelectSeq(series, LAMBDA c : c.val.data # <<>>)))

\* get_df_stream once the stream is exhausted.
FinishStream(series) ==
    LET kept    == SelectSeq(series, LAMBDA c : c.val.data # <<>>)
        lengths == {RLen(kept[i].val.data) : i \in 1..Len(kept)}
    IN  IF lengths = {} THEN Ok(<<>>)
        ELSE IF Cardinality(lengths) # 1 THEN Err("MismatchingLengths", lengths)
        ELSE Ok(unflatten(kept))

InitialTypesAsDeclared(initial, types) ==
    [i \in 1..Len(initial.column_types) |->
        [name |-> initial.column_types[i].name,
         type |-> ClickhouseTypeFrom(initial.column_types[i].type)]]

\* get_df_query: ch_types from the initial block, extended with `types`.
InitialTypes(initial, types) ==
    IndexMapCollect([i \in 1..Len(initial.column_types) |->
                        [name |-> initial.column_types[i].name,
                         type |-> ClickhouseTypeFrom(initial.column_types[i].type)]]
                    \o types)

(***************************************************************************)
(* table.rs: from_polars_schema (the types of the flattened schema, made   *)
(* nullable for the columns named in, or lying under a name of, nullables).*)
(***************************************************************************)
\* col.starts_with(&format!("{}.", n))
StartsWithDot(col, n) == Len(col) > Len(n) /\ SubSeq(col, 1, Len(n)) = n

from_polars_schema(df, nullables) ==
    LET schema == flatten(df)
    IN  TryCollect([i \in 1..Len(schema) |->
            LET col   == schema[i].name
                type_ == ClickhouseType_try_from(schema[i].val.dtype)
            IN  IF ~type_.ok THEN type_
                ELSE IF col \in nullables \/ \E n \in nullables : StartsWithDot(col, n)
                     THEN Ok([name |-> col, type |-> nullable(type_.v)])
                ELSE Ok([name |-> col, type |-> type_.v])])

(***************************************************************************)
(* The dataframes the flattener is run on.                                 *)
(***************************************************************************)
Atoms == {"a", "b"}
Vals == {0, 1}
MaxLeaves == 3

PlainNames == {<<x>> : x \in Atoms}
\* Names of which one contains a dot.
DottedNames == PlainNames \cup {<<"a", "b">>}

LeafSet(names) == {Leaf(nm, v) : nm \in names, v \in Vals}

RECURSIVE SeqTable(_, _)
\* SeqTable(cw, n)[m], for m in 1..n: the non-empty sequences of uniquely named
\* Series with m leaves in all, where cw[k] is the set of Series with k leaves.
SeqTable(cw, n) ==
    IF n = 0 THEN <<>>
    ELSE LET prev == SeqTable(cw, n - 1)
         IN  Append(prev,
                 {<<c>> : c \in cw[n]}
                 \cup UNION {{p[1] \o p[2] :
                                 p \in {q \in {<<c>> : c \in cw[k]} \X prev[n - k] :
                                           \A i \in 1..Len(q[2]) : q[2][i].name # q[1][1].name}}
                             : k \in 1..(n - 1)})

\* StructsOver(names, below)[m]: leaves, and structs whose fields are below[m].
StructsOver(names, below, n) ==
    [m \in 1..n |-> (IF m = 1 THEN LeafSet(names) ELSE {})
                     \cup {StructSeries(nm, fs) : nm \in names, fs \in below[m]}]

\* Dataframes of plain columns, structs, and structs of structs, of n leaves at
\* most, every column and field named from `names`.
NestedFrames(names, n) ==
    LET seqs0 == SeqTable([m \in 1..n |-> IF m = 1 THEN LeafSet(names) ELSE {}], n)
        seqs1 == SeqTable(StructsOver(names, seqs0, n), n)
        seqs2 == SeqTable(StructsOver(names, seqs1, n), n)
    IN  UNION {seqs2[m] : m \in 1..n}

\* Dataframes of plain columns and one-level structs, of two leaves at most.
ShallowFrames(names) ==
    LET seqs0 == SeqTable([m \in 1..2 |-> IF m = 1 THEN LeafSet(names) ELSE {}], 2)
        seqs1 == SeqTable(StructsOver(names, seqs0, 2), 2)
    IN  UNION {seqs1[m] : m \in 1..2}

\* Dot-free names nested two levels deep, and shallow frames with a dotted name.
DataFrames(n) == NestedFrames(PlainNames, n) \cup ShallowFrames(DottedNames)

RECURSIVE DotFree(_)
\* No column name and no field name contains a dot.
DotFree(cols) ==
    \A i \in 1..Len(cols) : ~ContainsDot(cols[i].name) /\ DotFree(cols[i].fields)

(***************************************************************************)
(* The flattener as a machine: flatten, then unflatten (test::flatten).    *)
(***************************************************************************)
StructInit ==
    /\ s_pc = "start"
    /\ s_df \in DataFrames(MaxLeaves)
    /\ s_flat = <<>>
    /\ s_out = <<>>

StructIdle ==
    /\ s_pc = "idle"
    /\ s_df = <<>>
    /\ s_flat = <<>>
    /\ s_out = <<>>

Flatten ==
    /\ s_pc = "start"
    /\ s_flat' = flatten(s_df)
    /\ s_pc' = "flattened"
    /\ UNCHANGED <<s_df, s_out, typeVars, codecVars, insertVars, queryVars>>

Unflatten ==
    /\ s_pc = "flattened"
    /\ s_out' = unflatten(IndexMapCollect(s_flat))
    /\ s_pc' = "done"
    /\ UNCHANGED <<s_df, s_flat, typeVars, codecVars, insertVars, queryVars>>

StructNext == Flatten \/ Unflatten


(***************************************************************************)
(* The type mapping as a machine: one conversion per step.                 *)
(***************************************************************************)
MaxListDepth == 2
MaxWrap == 2

RECURSIVE Wrappers(_, _)
\* The sequences of at most n tags drawn from `tags`.
Wrappers(tags, n) ==
    IF n = 0 THEN {<<>>}
    ELSE LET shorter == Wrappers(tags, n - 1)
         IN  shorter \cup {<<t>> \o w : t \in tags, w \in shorter}

\* polars types: the supported scalars, and three types without a mapping.
PolarsBases == Scalars \cup {"Boolean", "CategoricalPhysical", "CategoricalLexical",
                             "Date", "Binary", "Null"}
DataTypes == {w \o <<b>> : w \in Wrappers({"List"}, MaxListDepth), b \in PolarsBases}

KlickhouseBases == Scalars \cup {"Uuid", "Date"}
KlickhouseTypes ==
    {w \o <<b>> : w \in Wrappers({"Array", "Nullable", "LowCardinality"}, MaxWrap),
                  b \in KlickhouseBases}
ClickhouseTypes ==
    LET plain == {<<"Bool">>} \cup {ClickhouseTypeFrom(kt) : kt \in KlickhouseTypes}
    IN  plain \cup {nullable(ct) : ct \in plain}

TypeInit ==
    /\ t_dt \in DataTypes
    /\ t_cht \in ClickhouseTypes
    /\ t_p2c = Pending
    /\ t_c2p = Pending
    /\ t_back = Pending

TypeIdle ==
    /\ t_dt = <<>>
    /\ t_cht = <<>>
    /\ t_p2c = Pending
    /\ t_c2p = Pending
    /\ t_back = Pending

PolarsToClickhouse ==
    /\ t_p2c = Pending
    /\ t_p2c' = ClickhouseType_try_from(t_dt)
    /\ UNCHANGED <<t_dt, t_cht, t_c2p, t_back, structVars, codecVars, insertVars, queryVars>>

ClickhouseToPolars ==
    /\ t_c2p = Pending
    /\ t_c2p' = DataType_try_from(t_cht)
    /\ UNCHANGED <<t_dt, t_cht, t_p2c, t_back, structVars, codecVars, insertVars, queryVars>>

\* The database type obtained from t_dt is converted back.
ConvertBack ==
    /\ t_p2c.ok
    /\ t_back = Pending
    /\ t_back' = DataType_try_from(t_p2c.v)
    /\ UNCHANGED <<t_dt, t_cht, t_p2c, t_c2p, structVars, codecVars, insertVars, queryVars>>

TypeNext == PolarsToClickhouse \/ ClickhouseToPolars \/ ConvertBack

(***************************************************************************)
(* The value codec as a machine.  series_to_values encodes a Series in one *)
(* step; values_to_series runs its checking loop one entry a step and then *)
(* its conversion.                                                         *)
(***************************************************************************)
MaxRuns == 2

RECURSIVE RunSeqs(_, _, _)
\* The sequences of at most k runs of entries from vs, each run n in `counts` long.
RunSeqs(vs, counts, k) ==
    IF k = 0 THEN {<<>>}
    ELSE LET shorter == RunSeqs(vs, counts, k - 1)
         IN  shorter \cup {<<Run(p[1], p[2])>> \o p[3] :
                               p \in {q \in vs \X counts \X shorter :
                                         q[3] = <<>> \/ q[3][1].v # q[1]}}

ScalarCells == {NullCell, Cell(0), Cell(1)}
ListCells(inner) == {NullCell} \cup {ListCell(l) : l \in RunSeqs(inner, {1}, MaxRuns)}

\* The Series handed to series_to_values.
CodecSeries ==
    UNION {{SeriesData(dt, d) : d \in RunSeqs(ScalarCells, {1, 2}, MaxRuns)} :
              dt \in {<<"Int64">>, <<"String">>, <<"Boolean">>, <<"CategoricalPhysical">>}}
    \cup UNION {{SeriesData(<<"List">> \o dt, d) :
                    d \in RunSeqs(ListCells(ScalarCells), {1}, MaxRuns)} :
                 dt \in {<<"Int64">>, <<"Boolean">>}}

ScalarValues ==
    {Null, Scalar("Int64", 0), Scalar("Int64", 1), Scalar("String", 0), Scalar("String", -1),
     Scalar("UInt8", 0), Scalar("UInt8", 2), Scalar("Uuid", 0)}
ArrayValues ==
    {Array(a) : a \in RunSeqs({Null, Scalar("Int64", 0), Scalar("String", 0)}, {1}, MaxRuns)}

\* The Vec<Value> a server may deliver for a column.
CodecValues ==
    RunSeqs(ScalarValues, {1, 2}, MaxRuns) \cup RunSeqs(ArrayValues \cup {Null}, {1}, MaxRuns)

CodecTypes ==
    {<<"Bool">>, <<"Native", "String">>, <<"Native", "Int64">>, <<"Native", "UInt8">>,
     <<"Native", "Uuid">>, <<"Native", "Date">>, <<"Native", "LowCardinality", "String">>,
     <<"Native", "Nullable", "Int64">>, <<"CHNullable", "Native", "Int64">>,
     <<"CHNullable", "Bool">>, <<"Native", "LowCardinality", "Nullable", "String">>,
     <<"Native", "Array", "Int64">>,
     <<"Native", "Array", "Nullable", "Int64">>, <<"Native", "Array", "String">>}

NoSeries == SeriesData(<<>>, <<>>)

CodecInit ==
    /\ c_type \in CodecTypes
    /\ \/ c_pc = "encode" /\ c_series \in CodecSeries /\ c_values = <<>>
       \/ c_pc = "check" /\ c_series = NoSeries /\ c_values \in CodecValues
    /\ c_checked = 0
    /\ c_result = Pending

CodecIdle ==
    /\ c_pc = "idle"
    /\ c_series = NoSeries
    /\ c_type = <<>>
    /\ c_values = <<>>
    /\ c_checked = 0
    /\ c_result = Pending

\* series_to_values(&c_series, c_type), its iterator collected into a Vec.
Encode ==
    /\ c_pc = "encode"
    /\ LET vals == series_to_values(c_series, c_type)
       IN  IF vals.ok /\ PanicValue \notin RValues(vals.v)
           THEN c_values' = vals.v /\ c_pc' = "check" /\ c_result' = c_result
           ELSE /\ c_result' = (IF vals.ok THEN Panic ELSE vals)
                /\ c_pc' = "done"
                /\ c_values' = c_values
    /\ UNCHANGED <<c_series, c_type, c_checked, structVars, typeVars, insertVars, queryVars>>

\* One iteration of `for val in &values` (c2p.rs, the checking loop).
CheckValue ==
    /\ c_pc = "check"
    /\ c_checked < Len(c_values)
    /\ LET val == c_values[c_checked + 1].v
       IN  IF ValueRefused(val, TypeK(c_type))
           THEN /\ c_result' = MismatchingValueType(guess_type(val), TypeK(c_type))
                /\ c_pc' = "done"
                /\ c_checked' = c_checked
           ELSE /\ c_checked' = c_checked + 1
                /\ UNCHANGED <<c_pc, c_result>>
    /\ UNCHANGED <<c_series, c_type, c_values, structVars, typeVars, insertVars, queryVars>>

\* The loop is over: `match type_ { ... }`.
Convert ==
    /\ c_pc = "check"
    /\ c_checked = Len(c_values)
    /\ c_result' = ConvertValues(c_values, c_type)
    /\ c_pc' = "done"
    /\ UNCHANGED <<c_series, c_type, c_values, c_checked, structVars, typeVars, insertVars,
                   queryVars>>

CodecNext == Encode \/ CheckValue \/ Convert

(***************************************************************************)
(* insert_df as a machine: the checks and the iterator construction in one *)
(* step, then one step per iteration of the loop over the blocks.          *)
(***************************************************************************)
InsertIdle ==
    /\ i_pc = "idle"
    /\ i_schema = <<>>
    /\ i_df = <<>>
    /\ i_defaults = <<>>
    /\ i_rechunk = FALSE
    /\ i_client = "native"
    /\ i_accept = 0
    /\ i_iters = <<>>
    /\ i_sent = <<>>
    /\ i_stored = <<>>
    /\ i_result = Pending

\* insert_df is called; `inputs` are [schema, df, defaults] records.  Columns whose
\* chunks are laid out differently need at least two columns.
InsertInit(inputs, clients, accepts) ==
    /\ i_pc = "start"
    /\ \E inp \in inputs :
          /\ i_schema = inp.schema
          /\ i_df = inp.df
          /\ i_defaults = inp.defaults
    /\ i_rechunk \in BOOLEAN
    /\ i_rechunk => Len(flatten(i_df)) >= 2
    /\ i_client \in clients
    /\ i_accept \in accepts
    /\ i_iters = <<>>
    /\ i_sent = <<>>
    /\ i_stored = <<>>
    /\ i_result = Pending

\* insert_df up to `blocks.try_into_iter()?`
InsertStart ==
    /\ i_pc = "start"
    /\ LET df     == flatten(i_df)
           blocks == blocks_from_df(df, i_schema, i_defaults)
           it     == IF blocks.ok THEN try_into_iter(blocks.v) ELSE blocks
       IN  IF i_rechunk
           THEN i_result' = Err("ShouldRechunk", <<>>) /\ i_pc' = "done" /\ i_iters' = i_iters
           ELSE IF ~it.ok
                THEN i_result' = it /\ i_pc' = "done" /\ i_iters' = i_iters
           ELSE i_iters' = it.v /\ i_pc' = "loop" /\ i_result' = i_result
    /\ UNCHANGED <<i_schema, i_df, i_defaults, i_rechunk, i_client, i_accept, i_sent, i_stored>>
    /\ UNCHANGED <<structVars, typeVars, codecVars, queryVars>>

http_insert_posting(stored, block) ==
    [result |-> Ok(<<>>), stored |-> Append(stored, block)]

\* http::HttpClient::insert_native_raw: the query and the blocks are ignored.
http_insert_native_raw(stored, block) ==
    [result |-> Err("HttpError", <<"Insertion">>), stored |-> stored]

\* klickhouse::Client::insert_native_raw and the collection of its answer: the
\* server takes the block, or the insertion fails (after `accept` blocks).
native_insert_native_raw(accept, stored, block) ==
    IF Len(stored) >= accept
    THEN [result |-> Err("KlickhouseError", <<>>), stored |-> stored]
    ELSE [result |-> Ok(<<>>), stored |-> Append(stored, block)]

\* client.insert_native_raw(query, stream::iter([block])).await?.try_collect().await?
insert_native_raw(client, accept, stored, block) ==
    IF client = "http" THEN http_insert_native_raw(stored, block)
    ELSE native_insert_native_raw(accept, stored, block)

\* As InsertBlock, the columns being accumulated by a retrieval cleared on the
\* way: one buffer for every operation of the client.
InsertBlockOnSharedBuffer ==
    /\ i_pc = "loop"
    /\ LET nxt == BlockIterator_next(i_iters)
       IN  IF nxt.kind = "panic"
           THEN i_result' = Panic /\ i_pc' = "done" /\ UNCHANGED <<i_iters, i_sent, i_stored>>
           ELSE IF nxt.kind = "none"
                THEN /\ i_result' = Ok(<<>>)
                     /\ i_pc' = "done"
                     /\ UNCHANGED <<i_iters, i_sent, i_stored>>
           ELSE LET block == [nxt.block EXCEPT
                                 !.column_data = WithDefaults(@, i_defaults, nxt.block.rows)]
                IN  /\ i_iters' = [i_iters EXCEPT !.iters = nxt.iters]
                    /\ i_sent' = Append(i_sent, block)
                    /\ LET sent == insert_native_raw(i_client, i_accept, i_stored, block)
                       IN  /\ i_stored' = sent.stored
                           /\ IF sent.result.ok
                              THEN UNCHANGED <<i_pc, i_result>>
                              ELSE i_result' = sent.result /\ i_pc' = "done"
    /\ q_series' = [i \in 1..Len(q_series) |->
                       [q_series[i] EXCEPT !.val.data = <<>>]]
    /\ UNCHANGED <<i_schema, i_df, i_defaults, i_rechunk, i_client, i_accept>>
    /\ UNCHANGED <<q_rows, q_pc, q_client, q_status, q_response, q_source, q_head, q_emitted, q_types,
                   q_ch_types, q_result>>
    /\ UNCHANGED <<structVars, typeVars, codecVars>>

\* One turn of `for mut block in ...`: the next block, its defaults, its insertion.
InsertBlock ==
    /\ i_pc = "loop"
    /\ LET nxt == BlockIterator_next(i_iters)
       IN  IF nxt.kind = "panic"
           THEN i_result' = Panic /\ i_pc' = "done" /\ UNCHANGED <<i_iters, i_sent, i_stored>>
           ELSE IF nxt.kind = "none"
                THEN /\ i_result' = Ok(<<>>)
                     /\ i_pc' = "done"
                     /\ UNCHANGED <<i_iters, i_sent, i_stored>>
           ELSE LET block == [nxt.block EXCEPT
                                 !.column_data = WithDefaults(@, i_defaults, nxt.block.rows)]
                IN  /\ i_iters' = [i_iters EXCEPT !.iters = nxt.iters]
                    /\ i_sent' = Append(i_sent, block)
                    /\ LET sent == insert_native_raw(i_client, i_accept, i_stored, block)
                       IN  /\ i_stored' = sent.stored
                           /\ IF sent.result.ok
                              THEN UNCHANGED <<i_pc, i_result>>
                              ELSE i_result' = sent.result /\ i_pc' = "done"
    /\ UNCHANGED <<i_schema, i_df, i_defaults, i_rechunk, i_client, i_accept>>
    /\ UNCHANGED <<structVars, typeVars, codecVars, queryVars>>

InsertNext == InsertStart \/ InsertBlock

(***************************************************************************)
(* get_df_query as a machine: query_raw, the initial block, one block of   *)
(* the stream a step, the end of the stream.  The stream is that of the    *)
(* native client (the connection's items as they come) or that of the HTTP *)
(* adapter (clickhouse.rs, http::HttpClient::query_raw).                   *)
(***************************************************************************)
QueryIdle ==
    /\ q_pc = "idle"
    /\ q_client = "native"
    /\ q_status = "ok"
    /\ q_response = <<>>
    /\ q_source = <<>>
    /\ q_head = <<>>
    /\ q_emitted = <<>>
    /\ q_rows = <<>>
    /\ q_types = <<>>
    /\ q_ch_types = <<>>
    /\ q_series = <<>>
    /\ q_result = Pending

\* get_df_query is called; the connection will deliver one of `sources`.
QueryInit(sources, overrides, clients) ==
    /\ q_pc = "start"
    /\ q_client \in clients
    /\ q_status \in {"ok", "request"} \cup (IF q_client = "http" THEN {"server"} ELSE {})
    /\ q_response \in sources
    /\ q_source = q_response
    /\ q_head = <<>>
    /\ q_emitted = <<>>
    /\ q_rows = <<>>
    /\ q_types \in overrides
    /\ q_ch_types = <<>>
    /\ q_series = <<>>
    /\ q_result = Pending

RepeatFirstOnce(s) == <<s>>
RepeatFirstThrice(s) == <<s, s, s>>

\* stream::repeat_with(move || Ok(s.clone())).take(2)
RepeatFirst(s) == <<s, s>>

\* client.query_raw(query).await
QueryRaw ==
    /\ q_pc = "start"
    /\ IF q_status = "request"
       THEN /\ q_result' = (IF q_client = "http" THEN Err("HttpError", <<"Request">>)
                            ELSE Err("KlickhouseError", <<>>))
            /\ q_pc' = "done"
            /\ UNCHANGED <<q_source, q_head>>
       ELSE IF q_status = "server"
            THEN /\ q_result' = Err("HttpError", <<"Server">>)
                 /\ q_pc' = "done"
                 /\ UNCHANGED <<q_source, q_head>>
       ELSE IF q_client = "native" \/ q_source = <<>>
            THEN q_pc' = "raw" /\ UNCHANGED <<q_source, q_head, q_result>>
       ELSE IF ~Head(q_source).ok
            THEN /\ q_result' = Head(q_source)
                 /\ q_pc' = "done"
                 /\ q_source' = Tail(q_source)
                 /\ q_head' = q_head
       ELSE /\ q_head' = RepeatFirst(Head(q_source).v)
            /\ q_source' = Tail(q_source)
            /\ q_pc' = "raw"
            /\ q_result' = q_result
    /\ UNCHANGED <<q_rows, q_client, q_status, q_response, q_emitted, q_types, q_ch_types, q_series>>
    /\ UNCHANGED <<structVars, typeVars, codecVars, insertVars>>

\* The stream has an item to yield / is exhausted.
StreamHasNext == q_head # <<>> \/ q_source # <<>>
StreamItem == IF q_head # <<>> THEN Ok(Head(q_head)) ELSE Head(q_source)

\* stream.next() yields StreamItem.
StreamAdvance ==
    /\ q_emitted' = Append(q_emitted, StreamItem)
    /\ IF q_head # <<>>
       THEN q_head' = Tail(q_head) /\ q_source' = q_source
       ELSE q_source' = Tail(q_source) /\ q_head' = q_head

EmptyFrameInstead == Ok(<<>>)

\* resp.next().await.ok_or_else(|| ProtocolError("Missing initial block".into()))
MissingInitialBlock == Err("ProtocolError", <<"Missing initial block">>)

\* As TakeInitial, the rows of the initial block going into the series.
TakeInitialAppending ==
    /\ q_pc = "raw"
    /\ IF ~StreamHasNext
       THEN /\ q_result' = MissingInitialBlock
            /\ q_pc' = "done"
            /\ UNCHANGED <<q_source, q_head, q_emitted, q_ch_types, q_series>>
       ELSE /\ StreamAdvance
            /\ IF ~StreamItem.ok
               THEN /\ q_result' = StreamItem
                    /\ q_pc' = "done"
                    /\ UNCHANGED <<q_ch_types, q_series>>
               ELSE LET ch_types == InitialTypes(StreamItem.v, q_types)
                        series   == NewSeries(ch_types)
                        filled   == IF series.ok
                                    THEN ExtendSeries(series.v, ch_types, StreamItem.v.column_data)
                                    ELSE series
                    IN  /\ q_ch_types' = ch_types
                        /\ IF filled.ok
                           THEN q_series' = filled.v /\ q_pc' = "stream" /\ q_result' = q_result
                           ELSE q_result' = filled /\ q_pc' = "done" /\ q_series' = q_series
    /\ UNCHANGED <<q_rows, q_client, q_status, q_response, q_types>>
    /\ UNCHANGED <<structVars, typeVars, codecVars, insertVars>>

\* resp.next().await for the initial block, ch_types, and the empty series.
TakeInitial ==
    /\ q_pc = "raw"
    /\ IF ~StreamHasNext
       THEN /\ q_result' = MissingInitialBlock
            /\ q_pc' = "done"
            /\ UNCHANGED <<q_source, q_head, q_emitted, q_ch_types, q_series>>
       ELSE /\ StreamAdvance
            /\ IF ~StreamItem.ok
               THEN /\ q_result' = StreamItem
                    /\ q_pc' = "done"
                    /\ UNCHANGED <<q_ch_types, q_series>>
               ELSE LET ch_types == InitialTypes(StreamItem.v, q_types)
                        series   == NewSeries(ch_types)
                    IN  /\ q_ch_types' = ch_types
                        /\ IF series.ok
                           THEN q_series' = series.v /\ q_pc' = "stream" /\ q_result' = q_result
                           ELSE q_result' = series /\ q_pc' = "done" /\ q_series' = q_series
    /\ UNCHANGED <<q_rows, q_client, q_status, q_response, q_types>>
    /\ UNCHANGED <<structVars, typeVars, codecVars, insertVars>>

\* As AccumulateBlock, an item or a block that fails being passed over.
AccumulateBlockPassingOver ==
    /\ q_pc = "stream"
    /\ StreamHasNext
    /\ StreamAdvance
    /\ LET series == IF StreamItem.ok
                     THEN ExtendSeries(q_series, q_ch_types, StreamItem.v.column_data)
                     ELSE StreamItem
       IN  q_series' = (IF series.ok THEN series.v ELSE q_series)
    /\ UNCHANGED <<q_pc, q_result>>
    /\ UNCHANGED <<q_rows, q_client, q_status, q_response, q_types, q_ch_types>>
    /\ UNCHANGED <<structVars, typeVars, codecVars, insertVars>>

\* get_df_stream takes one item of the stream.
AccumulateBlock ==
    /\ q_pc = "stream"
    /\ StreamHasNext
    /\ StreamAdvance
    /\ IF ~StreamItem.ok
       THEN q_result' = StreamItem /\ q_pc' = "done" /\ q_series' = q_series
       ELSE LET series == ExtendSeries(q_series, q_ch_types, StreamItem.v.column_data)
            IN  IF series.ok
                THEN q_series' = series.v /\ UNCHANGED <<q_pc, q_result>>
                ELSE q_result' = series /\ q_pc' = "done" /\ q_series' = q_series
    /\ UNCHANGED <<q_rows, q_client, q_status, q_response, q_types, q_ch_types>>
    /\ UNCHANGED <<structVars, typeVars, codecVars, insertVars>>

\* The stream is exhausted: retain, the lengths, unflatten.
FinishQuery ==
    /\ q_pc = "stream"
    /\ ~StreamHasNext
    /\ q_result' = FinishStream(q_series)
    /\ q_pc' = "done"
    /\ UNCHANGED <<q_rows, q_client, q_status, q_response, q_source, q_head, q_emitted, q_types,
                   q_ch_types, q_series>>
    /\ UNCHANGED <<structVars, typeVars, codecVars, insertVars>>

QueryNext == QueryRaw \/ TakeInitial \/ AccumulateBlock \/ FinishQuery

(***************************************************************************)
(* ClientGeneric::query as a machine: query_raw, then the rows of one item  *)
(* of its stream a step (the flat_map), until the stream is exhausted.      *)
(***************************************************************************)
RECURSIVE RAt(_, _)
\* The i-th entry of a run-length sequence.
RAt(rs, i) == IF i <= Head(rs).n THEN Head(rs).v ELSE RAt(Tail(rs), i - Head(rs).n)

\* block.take_iter_rows(): a row for every index all the columns have a value at.
take_iter_rows(block) ==
    LET lens == {RLen(block.column_data[j].values) : j \in 1..Len(block.column_data)}
        n    == IF lens = {} THEN 0 ELSE CHOOSE m \in lens : \A k \in lens : m <= k
    IN  [r \in 1..n |->
            [j \in 1..Len(block.column_data) |->
                [name  |-> block.column_data[j].name,
                 value |-> RAt(block.column_data[j].values, r)]]]

\* The closure given to flat_map: the rows of a block, or the error.
rows_of_item(item) ==
    IF ~item.ok THEN <<item>>
    ELSE LET rows == SelectSeq(take_iter_rows(item.v), LAMBDA m : m # <<>>)
         IN  [r \in 1..Len(rows) |-> Ok(rows[r])]

\* The stream of rows is polled and the raw stream has an item.
QueryRows ==
    /\ q_pc = "raw"
    /\ StreamHasNext
    /\ StreamAdvance
    /\ q_rows' = q_rows \o rows_of_item(StreamItem)
    /\ UNCHANGED <<q_pc, q_client, q_status, q_response, q_types, q_ch_types, q_series, q_result>>
    /\ UNCHANGED <<structVars, typeVars, codecVars, insertVars>>

\* The stream of rows is polled and the raw stream is exhausted.
QueryRowsEnd ==
    /\ q_pc = "raw"
    /\ ~StreamHasNext
    /\ q_pc' = "done"
    /\ UNCHANGED <<q_client, q_status, q_response, q_source, q_head, q_emitted, q_types,
                   q_ch_types, q_series, q_result, q_rows>>
    /\ UNCHANGED <<structVars, typeVars, codecVars, insertVars>>

RowsNext == QueryRaw \/ QueryRows \/ QueryRowsEnd

(***************************************************************************)
(* The two operations as functions of what they are given: the result of   *)
(* an operation that runs from its call to its return with nothing else    *)
(* going on.                                                               *)
(***************************************************************************)
RECURSIVE get_df_stream(_, _, _)
\* get_df_stream on the items that follow the initial block.
get_df_stream(series, ch_types, items) ==
    IF items = <<>> THEN FinishStream(series)
    ELSE IF ~Head(items).ok THEN Head(items)
    ELSE LET extended == ExtendSeries(series, ch_types, Head(items).v.column_data)
         IN  IF ~extended.ok THEN extended
             ELSE get_df_stream(extended.v, ch_types, Tail(items))

\* query_raw of the two clients: the stream of items get_df_query reads.
query_raw(client, status, response) ==
    IF status = "request"
    THEN (IF client = "http" THEN Err("HttpError", <<"Request">>) ELSE Err("KlickhouseError", <<>>))
    ELSE IF status = "server" THEN Err("HttpError", <<"Server">>)
    ELSE IF client = "native" \/ response = <<>> THEN Ok(response)
    ELSE IF ~Head(response).ok THEN Head(response)
    ELSE Ok([i \in 1..Len(RepeatFirst(Head(response).v)) |-> Ok(RepeatFirst(Head(response).v)[i])]
            \o Tail(response))

get_df_query(client, status, response, types) ==
    LET resp == query_raw(client, status, response)
    IN  IF ~resp.ok THEN resp
        ELSE IF resp.v = <<>> THEN MissingInitialBlock
        ELSE IF ~Head(resp.v).ok THEN Head(resp.v)
        ELSE LET ch_types == InitialTypes(Head(resp.v).v, types)
                 series   == NewSeries(ch_types)
             IN  IF ~series.ok THEN series
                 ELSE get_df_stream(series.v, ch_types, Tail(resp.v))

RECURSIVE insert_blocks(_, _, _, _, _, _)
\* The loop of insert_df: the result, the blocks handed over, the blocks stored.
insert_blocks(it, defaults, client, accept, sent, stored) ==
    LET nxt == BlockIterator_next(it)
    IN  IF nxt.kind = "panic" THEN [result |-> Panic, sent |-> sent, stored |-> stored]
        ELSE IF nxt.kind = "none" THEN [result |-> Ok(<<>>), sent |-> sent, stored |-> stored]
        ELSE LET block == [nxt.block EXCEPT
                              !.column_data = WithDefaults(@, defaults, nxt.block.rows)]
                 out   == insert_native_raw(client, accept, stored, block)
             IN  IF ~out.result.ok
                 THEN [result |-> out.result, sent |-> Append(sent, block), stored |-> out.stored]
                 ELSE insert_blocks([it EXCEPT !.iters = nxt.iters], defaults, client, accept,
                                    Append(sent, block), out.stored)

insert_df(schema, df, defaults, rechunk, client, accept) ==
    LET blocks == blocks_from_df(flatten(df), schema, defaults)
        it     == IF blocks.ok THEN try_into_iter(blocks.v) ELSE blocks
    IN  IF rechunk THEN [result |-> Err("ShouldRechunk", <<>>), sent |-> <<>>, stored |-> <<>>]
        ELSE IF ~it.ok THEN [result |-> it, sent |-> <<>>, stored |-> <<>>]
        ELSE insert_blocks(it.v, defaults, client, accept, <<>>, <<>>)

(***************************************************************************)
(* The insertions and the retrievals the machines are run on.              *)
(***************************************************************************)
MaxStored == 3
MaxItems == 3

TypeEntry(name, type) == [name |-> name, type |-> type]
DefaultEntry(name, v) == [name |-> name, v |-> v]
DataEntry(name, values) == [name |-> name, values |-> values]

\* In the insertions checked for their shape a column's type goes with its name.
ColumnType(name) == IF name = <<"y">> THEN <<"Native", "String">> ELSE <<"Native", "Int64">>
ColumnDType(name) == IF name = <<"y">> THEN <<"String">> ELSE <<"Int64">>

SchemaOf(names) == [i \in 1..Len(names) |-> TypeEntry(names[i], ColumnType(names[i]))]

InsertSchemas ==
    {SchemaOf(ns) : ns \in {<< <<"x">> >>, << <<"x">>, <<"y">> >>, << <<"x">>, <<"c">> >>,
                            << <<"c">>, <<"x">> >>, << <<"x">>, <<"y">>, <<"c">> >>,
                            << <<"s", "a">>, <<"x">> >>}}

InsertDefaults ==
    {<<>>,
     <<DefaultEntry(<<"c">>, Scalar("Int64", 7))>>,
     <<DefaultEntry(<<"c">>, Scalar("Int64", 7)), DefaultEntry(<<"x">>, Scalar("Int64", 9))>>,
     <<DefaultEntry(<<"y">>, Scalar("String", 5))>>}

InsertRows == {0, 1, BatchSize, BatchSize + 1, 350000, 2 * BatchSize, 2 * BatchSize + 1}

\* Columns of n rows: one value throughout, or a second one from row 2 or from
\* the first row of the second block on.
ColumnData(n) ==
    {RNorm(<<Run(Cell(0), k), Run(Cell(1), n - k)>>) : k \in {1, BatchSize, n} \cap 0..n}

Column(name, data) == Leaf(name, SeriesData(ColumnDType(name), data))

\* Dataframes of n rows: the first column varies, the others are constant.
InsertFrames(n) ==
    LET const == RepeatTake(Cell(0), n)
    IN  {<<>>}
        \cup UNION {{<<Column(<<"x">>, d)>>,
                      <<Column(<<"y">>, d)>>,
                      <<Column(<<"x">>, d), Column(<<"y">>, const)>>,
                      <<Column(<<"x">>, d), Column(<<"c">>, const)>>,
                      <<StructSeries(<<"s">>, <<Column(<<"a">>, d)>>), Column(<<"x">>, const)>>}
                     : d \in ColumnData(n)}

InsertInputs ==
    {[schema |-> sch, df |-> df, defaults |-> dflt] :
        sch \in InsertSchemas,
        df \in UNION {InsertFrames(n) : n \in InsertRows},
        dflt \in InsertDefaults}

\* The retrievals: blocks of two type maps, well-formed and not.
QueryTypes ==
    {<<TypeEntry(<<"x">>, <<"Int64">>), TypeEntry(<<"y">>, <<"UInt8">>)>>,
     <<TypeEntry(<<"s", "f">>, <<"Int64">>), TypeEntry(<<"x">>, <<"Int64">>)>>}

ValueOfType(kt) == IF kt = <<"UInt8">> THEN Scalar("UInt8", 2) ELSE Scalar(kt[1], 1)

\* A block of the type map ts whose i-th column holds lens[i] values.
BlockOf(ts, rows, lens) ==
    [rows |-> rows, column_types |-> ts,
     column_data |-> [i \in 1..Len(ts) |->
                        DataEntry(ts[i].name, RepeatTake(ValueOfType(ts[i].type), lens[i]))]]

QueryBlocks ==
    LET xy == <<TypeEntry(<<"x">>, <<"Int64">>), TypeEntry(<<"y">>, <<"UInt8">>)>>
    IN  {BlockOf(ts, n, <<n, n>>) : ts \in QueryTypes, n \in 0..2}
        \cup {BlockOf(xy, 2, <<2, 1>>), BlockOf(xy, 1, <<1, 0>>),
              [BlockOf(xy, 1, <<1, 1>>) EXCEPT
                  !.column_data = Append(@, DataEntry(<<"z">>, <<Run(Scalar("Int64", 1), 1)>>))],
              [BlockOf(xy, 1, <<1, 1>>) EXCEPT
                  !.column_data[1].values = <<Run(Scalar("String", 1), 1)>>],
              [BlockOf(xy, 1, <<1, 1>>) EXCEPT
                  !.column_data = Append([@ EXCEPT ![1].values = <<Run(Scalar("String", 1), 1)>>],
                                         DataEntry(<<"z">>, <<Run(Scalar("Int64", 1), 1)>>))]}

QueryItems == {Ok(b) : b \in QueryBlocks} \cup {Err("KlickhouseError", <<>>)}

RECURSIVE SeqsUpTo(_, _)
SeqsUpTo(S, n) ==
    IF n = 0 THEN {<<>>}
    ELSE LET shorter == SeqsUpTo(S, n - 1)
         IN  shorter \cup {Append(q, x) : q \in shorter, x \in S}

QueryOverrides ==
    {<<>>,
     <<TypeEntry(<<"y">>, <<"Bool">>)>>,
     <<TypeEntry(<<"z">>, <<"Native", "String">>)>>,
     <<TypeEntry(<<"x">>, <<"Native", "Date">>)>>}

\* The operations issued together through one client: insertions of one to
\* three blocks, and retrievals of well-formed and ill-formed answers.
ConcurrentInserts ==
    LET xc == SchemaOf(<< <<"x">>, <<"c">> >>)
        c7 == <<DefaultEntry(<<"c">>, Scalar("Int64", 7))>>
    IN  {[schema |-> xc, df |-> <<Column(<<"x">>, d)>>, defaults |-> c7] :
            d \in UNION {ColumnData(n) : n \in {1, 350000, 2 * BatchSize + 1}}}
        \cup {[schema |-> xc, df |-> <<Column(<<"y">>, RepeatTake(Cell(0), 1))>>, defaults |-> c7],
              [schema |-> xc,
               df |-> <<Column(<<"x">>, RepeatTake(Cell(1), 1)), Column(<<"c">>, RepeatTake(Cell(0), 1))>>,
               defaults |-> <<>>]}

ConcurrentItems ==
    LET xy == <<TypeEntry(<<"x">>, <<"Int64">>), TypeEntry(<<"y">>, <<"UInt8">>)>>
    IN  {Ok(BlockOf(xy, n, <<n, n>>)) : n \in 0..1}
        \cup {Ok([BlockOf(xy, 1, <<1, 1>>) EXCEPT
                    !.column_data = Append(@, DataEntry(<<"z">>, <<Run(Scalar("Int64", 1), 1)>>))]),
              Ok([BlockOf(xy, 1, <<1, 1>>) EXCEPT
                    !.column_data[1].values = <<Run(Scalar("String", 1), 1)>>]),
              Err("KlickhouseError", <<>>)}

ConcurrentOverrides == {<<>>, <<TypeEntry(<<"y">>, <<"Bool">>)>>}

(***************************************************************************)
(* Insertion followed by retrieval (tests/main.rs): the table holds the    *)
(* blocks the server took and the server answers `select *` with them, the *)
(* native protocol after a block of no rows that declares the columns.     *)
(***************************************************************************)
QueryWait(clients) ==
    /\ q_pc = "wait"
    /\ q_client \in clients
    /\ q_status = "ok"
    /\ q_response = <<>>
    /\ q_source = <<>>
    /\ q_head = <<>>
    /\ q_emitted = <<>>
    /\ q_rows = <<>>
    /\ q_types = <<>>
    /\ q_ch_types = <<>>
    /\ q_series = <<>>
    /\ q_result = Pending

HeaderBlock(schema) ==
    [rows |-> 0,
     column_types |-> [i \in 1..Len(schema) |->
                          [name |-> schema[i].name, type |-> KlickhouseTypeOf(schema[i].type)]],
     column_data |-> [i \in 1..Len(schema) |-> [name |-> schema[i].name, values |-> <<>>]]]

\* table.get_df_query(select *) after a successful insert_df.
Serve ==
    /\ i_pc = "done"
    /\ i_result.ok
    /\ q_pc = "wait"
    /\ q_pc' = "start"
    /\ q_types' = i_schema
    /\ q_response' = (IF q_client = "native" THEN <<Ok(HeaderBlock(i_schema))>> ELSE <<>>)
                         \o [k \in 1..Len(i_stored) |-> Ok(i_stored[k])]
    /\ q_source' = q_response'
    /\ UNCHANGED <<q_rows, q_client, q_status, q_head, q_emitted, q_ch_types, q_series, q_result>>
    /\ UNCHANGED <<structVars, typeVars, codecVars, insertVars>>

RoundTripNext == InsertNext \/ Serve \/ QueryNext

\* The dataframes inserted and read back: one column of each kind of type, of
\* one or two rows or filling one or two blocks, and a struct of two fields.
RoundTripFrames ==
    UNION {{<<Leaf(<<"x">>, SeriesData(dt, d))>> :
               d \in RunSeqs(ScalarCells, {1, BatchSize}, MaxRuns)} :
           dt \in {<<"Int64">>, <<"Float64">>, <<"String">>, <<"Boolean">>,
                   <<"CategoricalPhysical">>}}
    \cup {<<Leaf(<<"x">>, SeriesData(<<"List", "Int64">>, d))>> :
             d \in RunSeqs(ListCells(ScalarCells), {1}, MaxRuns)}
    \cup {<<StructSeries(<<"s">>, <<Leaf(<<"a">>, SeriesData(<<"Int64">>, p[1])),
                                    Leaf(<<"b">>, SeriesData(<<"Boolean">>, p[2]))>>)>> :
             p \in {q \in RunSeqs(ScalarCells, {1}, MaxRuns) \X RunSeqs(ScalarCells, {1}, MaxRuns) :
                       RLen(q[1]) = RLen(q[2])}}

RoundTripInputs ==
    {[schema |-> from_polars_schema(p[1], p[2]).v, df |-> p[1], defaults |-> <<>>] :
        p \in {q \in RoundTripFrames \X {{}, {<<"x">>, <<"s">>}} :
                  from_polars_schema(q[1], q[2]).ok}}

(***************************************************************************)
(* Specifications: one machine runs, the others idle.                      *)
(***************************************************************************)
InitStruct == StructInit /\ TypeIdle /\ CodecIdle /\ InsertIdle /\ QueryIdle
SpecStruct == InitStruct /\ [][StructNext]_vars

InitTypes == StructIdle /\ TypeInit /\ CodecIdle /\ InsertIdle /\ QueryIdle
SpecTypes == InitTypes /\ [][TypeNext]_vars

InitCodec == StructIdle /\ TypeIdle /\ CodecInit /\ InsertIdle /\ QueryIdle
SpecCodec == InitCodec /\ [][CodecNext]_vars

InitInsert ==
    /\ StructIdle /\ TypeIdle /\ CodecIdle /\ QueryIdle
    /\ InsertInit(InsertInputs, {"native", "http"}, {0, 1, MaxStored})
SpecInsert == InitInsert /\ [][InsertNext]_vars

InitQuery ==
    /\ StructIdle /\ TypeIdle /\ CodecIdle /\ InsertIdle
    /\ QueryInit(SeqsUpTo(QueryItems, MaxItems), QueryOverrides, {"native", "http"})
SpecQuery == InitQuery /\ [][QueryNext]_vars

InitRoundTrip ==
    /\ StructIdle /\ TypeIdle /\ CodecIdle
    /\ InsertInit(RoundTripInputs, {"native"}, {MaxStored})
    /\ QueryWait({"native", "http"})
SpecRoundTrip == InitRoundTrip /\ [][RoundTripNext]_vars

\* An insertion and a retrieval issued together through the same client: the
\* steps of the two interleave in every order.
ConcurrentNext == InsertNext \/ QueryNext

InitConcurrent ==
    /\ StructIdle /\ TypeIdle /\ CodecIdle
    /\ InsertInit(ConcurrentInserts, {"native", "http"}, {1, MaxStored})
    /\ QueryInit(SeqsUpTo(ConcurrentItems, MaxItems), ConcurrentOverrides, {"native", "http"})
    /\ q_client = i_client
SpecConcurrent == InitConcurrent /\ [][ConcurrentNext]_vars

InitRows ==
    /\ StructIdle /\ TypeIdle /\ CodecIdle /\ InsertIdle
    /\ QueryInit(SeqsUpTo(QueryItems, MaxItems), {<<>>}, {"native", "http"})
SpecRows == InitRows /\ [][RowsNext]_vars

(***************************************************************************)
(* Claims about the type mapping (checked under SpecTypes).                *)
(***************************************************************************)

\* The supported dataframe column types.
Supported(dt) ==
    dt[Len(dt)] \in Scalars \cup {"Boolean", "CategoricalPhysical", "CategoricalLexical"}

\* What the documented information loss leaves of a type: a categorical keeps no
\* ordering, and a boolean inside a list is the 8-bit integer that stores it.
Erased(dt) ==
    LET base == dt[Len(dt)]
    IN  IF base = "CategoricalLexical" THEN SubSeq(dt, 1, Len(dt) - 1) \o <<"CategoricalPhysical">>
        ELSE IF base = "Boolean" /\ Len(dt) > 1 THEN SubSeq(dt, 1, Len(dt) - 1) \o <<"UInt8">>
        ELSE dt

\* C10: every supported column type converted to a database type and back is
\* itself again, also inside lists, but for the boolean / low-cardinality loss:
\* there the result is the type with exactly that information erased.
C10_TypeRoundTrip ==
    (Supported(t_dt) /\ t_p2c # Pending)
        => /\ t_p2c.ok
           /\ (t_back # Pending => t_back = Ok(Erased(t_dt)))

\* A list of lists of 64-bit integers has been converted there and back.
C10_Witness ==
    /\ t_dt = <<"List", "List", "Int64">>
    /\ t_p2c = Ok(<<"Native", "Array", "Array", "Int64">>)
    /\ t_back = Ok(t_dt)

\* What is left of a type once the wrappers in `through` are taken off its
\* outside: the first type, going inwards, that is not such a wrapper.
Core(type, through) ==
    LET first == CHOOSE i \in 1..Len(type) :
                    /\ type[i] \notin through
                    /\ \A j \in 1..(i - 1) : type[j] \in through
    IN  SubSeq(type, first, Len(type))

\* The dataframe types of the correspondence: a scalar, a boolean or a
\* categorical, inside any number of lists.
InPolarsCorrespondence(dt) ==
    /\ Len(Core(dt, {"List"})) = 1
    /\ Supported(dt)

\* The database type inside the ClickhouseType ct, as a klickhouse type.
DbTypeOf(ct) ==
    LET plain == IF Head(ct) = "CHNullable" THEN Tail(ct) ELSE ct
    IN  IF plain = <<"Bool">> THEN <<"UInt8">> ELSE Tail(plain)

\* The database types of the correspondence: a scalar, a UUID or a
\* low-cardinality string, inside any number of arrays and nullables.
InDbCorrespondence(ct) ==
    Core(DbTypeOf(ct), {"Array", "Nullable"})
        \in {<<b>> : b \in Scalars \cup {"Uuid"}} \cup {<<"LowCardinality", "String">>}

\* C21: a type outside the correspondence is refused in both directions, with
\* UnsupportedPolarsType / UnsupportedClickhouseType carrying the type that has
\* no mapping (the type itself, or the one inside the lists, arrays and
\* nullables around it); a type inside the correspondence is converted.
C21_UnsupportedRefused ==
    /\ t_p2c # Pending
          => IF InPolarsCorrespondence(t_dt) THEN t_p2c.ok
             ELSE /\ ~t_p2c.ok
                  /\ t_p2c.err = "UnsupportedPolarsType"
                  /\ t_p2c.v = Core(t_dt, {"List"})
    /\ t_c2p # Pending
          => IF InDbCorrespondence(t_cht) THEN t_c2p.ok
             ELSE /\ ~t_c2p.ok
                  /\ t_c2p.err = "UnsupportedClickhouseType"
                  /\ t_c2p.v = ClickhouseTypeFrom(Core(DbTypeOf(t_cht), {"Array", "Nullable"}))

\* A list of dates and an array of low-cardinality integers have both been
\* refused, each error carrying the inner type.
C21_Witness ==
    /\ t_dt = <<"List", "Date">>
    /\ t_p2c.err = "UnsupportedPolarsType"
    /\ t_p2c.v = <<"Date">>
    /\ t_cht = <<"Native", "Array", "LowCardinality", "Int64">>
    /\ t_c2p.err = "UnsupportedClickhouseType"
    /\ t_c2p.v = <<"Native", "LowCardinality", "Int64">>

(***************************************************************************)
(* Claims about the value codec (checked under SpecCodec).                 *)
(***************************************************************************)
RECURSIVE Stripped(_)
\* A database type without its nullable and low-cardinality wrapping.
Stripped(kt) == IF Head(kt) \in {"Nullable", "LowCardinality"} THEN Stripped(Tail(kt)) ELSE kt

\* Some non-null value's physical tag differs from the stripped database type.
SomeTagDiffers ==
    \E val \in RValues(c_values) :
        val # Null /\ guess_type(val) # Stripped(KlickhouseTypeOf(c_type))

\* C8: values_to_series fails with MismatchingValueType(found, expected), found
\* the tag of a non-null value that differs from expected, whenever a non-null
\* value's tag differs from the stripped database type of `type`; it then has
\* converted nothing, for the conversion starts only once every value passed.
C8_MismatchRefused ==
    /\ (c_pc = "done" /\ c_values # <<>> /\ SomeTagDiffers)
          => /\ c_result.err = "MismatchingValueType"
             /\ c_checked < Len(c_values)
             /\ \E val \in RValues(c_values) :
                   /\ val # Null
                   /\ guess_type(val) # c_result.v[2]
                   /\ c_result.v = <<guess_type(val), TypeK(c_type)>>
    /\ (c_pc = "done" /\ c_checked = Len(c_values))
          => \A val \in RValues(c_values) : val # Null => guess_type(val) = TypeK(c_type)

\* Int64 values after a null, decoded as String: refused at the first of them.
C8_Witness ==
    /\ c_pc = "done"
    /\ c_type = <<"Native", "String">>
    /\ c_values = <<Run(Null, 1), Run(Scalar("Int64", 0), 2)>>
    /\ c_checked = 1
    /\ c_result = MismatchingValueType(<<"Int64">>, <<"String">>)

RECURSIVE Unrolled(_)
\* The entries of a run-length sequence one by one.
Unrolled(rs) ==
    IF rs = <<>> THEN <<>>
    ELSE [i \in 1..Head(rs).n |-> Head(rs).v] \o Unrolled(Tail(rs))

\* The declared type is one the column's type is encoded as.
Encodable(dtype, type_) ==
    LET core == Core(DbTypeOf(type_), {"Nullable"})
    IN  \/ dtype \in {<<"Int64">>, <<"String">>} /\ core = dtype
        \/ dtype = <<"Boolean">> /\ Core(type_, {"CHNullable"}) = <<"Bool">>
        \/ IsCategorical(dtype) /\ core = <<"LowCardinality", "String">>
        \/ dtype = <<"List", "Int64">>
              /\ core \in {<<"Array", "Int64">>, <<"Array", "Nullable", "Int64">>}

\* Encoding has given one value per row, Null for every null cell and only there.
OneValuePerRow ==
    LET cells  == Unrolled(c_series.data)
        values == Unrolled(c_values)
    IN  /\ Len(values) = Len(cells)
        /\ \A i \in 1..Len(cells) : (values[i] = Null) <=> cells[i].null

\* C25 as stated: a column of a supported type is encoded into one value per
\* row, Null for every null cell and a tagged value for every other cell, and
\* nulls never make the encoding abort.
C25_NullsEncoded ==
    (c_series # NoSeries /\ c_pc # "encode" /\ Encodable(c_series.dtype, c_type))
        => OneValuePerRow

\* The same, of the columns that are not categorical.
NullsEncodedUnlessCategorical ==
    (c_series # NoSeries /\ c_pc # "encode" /\ Encodable(c_series.dtype, c_type)
       /\ ~IsCategorical(c_series.dtype))
        => OneValuePerRow

\* C28: values_to_series does not panic, whatever values and declared type it
\* is given: it returns an error, or a series of as many cells as there are
\* values, the cell of a Null value empty and no other; the unreachable! arm
\* of extract! is never reached.
C28_NeverPanics ==
    (c_series = NoSeries /\ c_pc = "done")
        => /\ c_result.err # "panic"
           /\ c_result.ok =>
                 LET cells  == Unrolled(c_result.v.data)
                     values == Unrolled(c_values)
                 IN  /\ Len(cells) = Len(values)
                     /\ \A i \in 1..Len(values) : cells[i].null <=> (values[i] = Null)

\* A Null and two integers under a nullable integer type: three cells, the
\* first empty.
C28_Witness ==
    /\ c_series = NoSeries
    /\ c_pc = "done"
    /\ c_type = <<"Native", "Nullable", "Int64">>
    /\ c_values = <<Run(Null, 1), Run(Scalar("Int64", 1), 2)>>
    /\ c_result = Ok(SeriesData(<<"Int64">>, <<Run(NullCell, 1), Run(Cell(1), 2)>>))

(***************************************************************************)
(* Claims about insert_df (checked under SpecInsert).                      *)
(***************************************************************************)
\* The rows of the dataframe given to insert_df.
InsertedRows ==
    LET df == flatten(i_df) IN IF df = <<>> THEN 0 ELSE RLen(df[1].val.data)

CeilDiv(n, d) == (n + d - 1) \div d
Min(a, b) == IF a <= b THEN a ELSE b

\* C6: a dataframe of N >= 1 rows is cut into ceil(N / 200000) blocks, all but
\* the last of 200000 rows, the last of the remaining N - 200000 * (k - 1), all
\* with the column-type map of the first.
C6_BlockBatching ==
    /\ \A k \in 1..Len(i_sent) :
          /\ i_sent[k].rows = Min(200000, InsertedRows - 200000 * (k - 1))
          /\ i_sent[k].rows >= 1
          /\ i_sent[k].column_types = i_sent[1].column_types
    /\ (i_pc = "done" /\ i_result.ok /\ InsertedRows >= 1)
          => Len(i_sent) = CeilDiv(InsertedRows, 200000)

RECURSIVE SumRows(_)
SumRows(blocks) == IF blocks = <<>> THEN 0 ELSE Head(blocks).rows + SumRows(Tail(blocks))

\* 350000 rows went out as 200000 and 150000.
C6_Witness ==
    /\ i_pc = "done"
    /\ i_result.ok
    /\ InsertedRows = 350000
    /\ [k \in 1..Len(i_sent) |-> i_sent[k].rows] = <<200000, 150000>>
    /\ SumRows(i_sent) = InsertedRows

\* C7: a schema column the dataframe lacks and the defaults give as c -> v holds,
\* in every block handed to the transport, block.rows values, each v.
C7_DefaultsFilled ==
    \A k \in 1..Len(i_sent) : \A j \in 1..Len(i_defaults) :
        LET c == i_defaults[j].name
        IN  (c \in KeySet(i_schema) /\ c \notin KeySet(flatten(i_df)))
                => /\ c \in KeySet(i_sent[k].column_data)
                   /\ RLen(Lookup(i_sent[k].column_data, c).values) = i_sent[k].rows
                   /\ RValues(Lookup(i_sent[k].column_data, c).values) = {i_defaults[j].v}

\* The second block of an insertion carries 150000 copies of the default of c.
C7_Witness ==
    /\ Len(i_sent) = 2
    /\ KeySet(flatten(i_df)) = {<<"x">>}
    /\ i_defaults = <<DefaultEntry(<<"c">>, Scalar("Int64", 7))>>
    /\ i_sent[2].rows = 150000
    /\ Lookup(i_sent[2].column_data, <<"c">>).values = <<Run(Scalar("Int64", 7), 150000)>>

\* The dataframe's columns are among the schema's and, with the defaults' keys,
\* are exactly the schema's.
ColumnsAgree ==
    /\ KeySet(flatten(i_df)) \subseteq KeySet(i_schema)
    /\ KeySet(flatten(i_df)) \cup KeySet(i_defaults) = KeySet(i_schema)

\* C9 as stated: unless the columns agree insert_df fails with
\* MismatchingColumns, and no block has been handed to the transport.
C9_ColumnMismatch ==
    (i_pc = "done" /\ ~ColumnsAgree)
        => i_result.err = "MismatchingColumns" /\ i_sent = <<>>

\* C9, amended: a dataframe that should be rechunked fails with ShouldRechunk
\* whatever its columns; for any other, unless the columns agree insert_df fails
\* with MismatchingColumns; in both cases no block has been handed to the
\* transport.
C9_ColumnMismatchUnlessRechunk ==
    /\ (i_pc = "done" /\ i_rechunk)
          => i_result.err = "ShouldRechunk" /\ i_sent = <<>>
    /\ (i_pc = "done" /\ ~i_rechunk /\ ~ColumnsAgree)
          => i_result.err = "MismatchingColumns" /\ i_sent = <<>>
    /\ i_result.err = "MismatchingColumns" => i_sent = <<>> /\ ~ColumnsAgree

\* Columns x and y against a schema of x alone: refused, nothing sent.
C9_Witness ==
    /\ i_pc = "done"
    /\ ~i_rechunk
    /\ KeySet(flatten(i_df)) = {<<"x">>, <<"y">>}
    /\ KeySet(i_schema) = {<<"x">>}
    /\ i_result.err = "MismatchingColumns"
    /\ i_result.v = {<<"y">>}
    /\ i_sent = <<>>

\* C18: in every block handed to the transport, every column, taken from the
\* dataframe or filled from a default, holds as many values as the block
\* declares rows.
C18_ColumnLengthIsRows ==
    \A k \in 1..Len(i_sent) :
        \A j \in 1..Len(i_sent[k].column_data) :
            RLen(i_sent[k].column_data[j].values) = i_sent[k].rows

\* The second block of a dataframe of 350000 rows: 150000 rows in the column
\* of the dataframe and in the column filled from the default.
C18_Witness ==
    /\ Len(i_sent) = 2
    /\ i_sent[2].rows = 350000 - BatchSize
    /\ KeySet(flatten(i_df)) = {<<"x">>}
    /\ KeySet(i_defaults) = {<<"c">>}
    /\ \E j \in 1..Len(i_sent[2].column_data) :
          /\ i_sent[2].column_data[j].name = <<"c">>
          /\ i_sent[2].column_data[j].values = <<Run(Scalar("Int64", 7), 350000 - BatchSize)>>
    /\ \E j \in 1..Len(i_sent[2].column_data) :
          /\ i_sent[2].column_data[j].name = <<"x">>
          /\ RLen(i_sent[2].column_data[j].values) = 350000 - BatchSize

\* The names that are both a column of the dataframe and a key of the defaults.
InFrameAndDefaults == KeySet(flatten(i_df)) \cap KeySet(i_defaults)

\* The values of the k-th block of the column `name` of the dataframe.
FrameValues(name, k) ==
    LET col    == Lookup(flatten(i_df), name)
        values == series_to_values(col.val, Lookup(i_schema, name).type).v
    IN  RTake(RDrop(values, (k - 1) * BatchSize), BatchSize)

\* C30: for a name that is both a column of the dataframe and a key of the
\* defaults, every block handed to the transport holds one column of that
\* name, and it holds the values of the dataframe for the rows of the block:
\* the default neither replaces them nor adds to them.
C30_DefaultsOnlyFillMissing ==
    \A k \in 1..Len(i_sent) :
        \A name \in InFrameAndDefaults :
            /\ Cardinality({j \in 1..Len(i_sent[k].column_data) :
                                i_sent[k].column_data[j].name = name}) = 1
            /\ \A j \in 1..Len(i_sent[k].column_data) :
                   i_sent[k].column_data[j].name = name
                       => /\ i_sent[k].column_data[j].values = FrameValues(name, k)
                          /\ RLen(i_sent[k].column_data[j].values) = i_sent[k].rows

\* The second block of a dataframe of x, with defaults for c and for x: x holds
\* the 150000 values of the dataframe, none of them the default 9, and c the
\* default 7.
C30_Witness ==
    /\ Len(i_sent) = 2
    /\ i_sent[2].rows = 350000 - BatchSize
    /\ KeySet(flatten(i_df)) = {<<"x">>}
    /\ KeySet(i_defaults) = {<<"c">>, <<"x">>}
    /\ \E j \in 1..Len(i_sent[2].column_data) :
          /\ i_sent[2].column_data[j].name = <<"x">>
          /\ i_sent[2].column_data[j].values = <<Run(Scalar("Int64", 1), 350000 - BatchSize)>>
    /\ \E j \in 1..Len(i_sent[2].column_data) :
          /\ i_sent[2].column_data[j].name = <<"c">>
          /\ i_sent[2].column_data[j].values = <<Run(Scalar("Int64", 7), 350000 - BatchSize)>>

\* C19: every block handed to the transport declares the types of exactly the
\* columns of the table, and, the defaults injected, holds data for exactly
\* those columns.
C19_BlockColumnsAreSchema ==
    \A k \in 1..Len(i_sent) :
        /\ KeySet(i_sent[k].column_types) = KeySet(i_schema)
        /\ KeySet(i_sent[k].column_data) = KeySet(i_sent[k].column_types)
        /\ UniqueNames(i_sent[k].column_types)
        /\ UniqueNames(i_sent[k].column_data)

\* A block for the table of x, y and c from a dataframe of x and y, c coming
\* from the defaults.
C19_Witness ==
    /\ Len(i_sent) >= 1
    /\ KeySet(i_schema) = {<<"x">>, <<"y">>, <<"c">>}
    /\ KeySet(flatten(i_df)) = {<<"x">>, <<"y">>}
    /\ KeySet(i_defaults) = {<<"c">>}
    /\ KeySet(i_sent[1].column_types) = {<<"x">>, <<"y">>, <<"c">>}
    /\ KeySet(i_sent[1].column_data) = {<<"x">>, <<"y">>, <<"c">>}

\* The lengths of the slices block k holds of the dataframe's own columns.
SliceLengths(k) ==
    {RLen(i_sent[k].column_data[j].values) :
        j \in {h \in 1..Len(i_sent[k].column_data) :
                  i_sent[k].column_data[h].name \in KeySet(flatten(i_df))}}

\* Some column iterator has nothing left, or there is no iterator.
SomeExhausted ==
    \/ i_iters.iters = <<>>
    \/ \E j \in 1..Len(i_iters.iters) : i_iters.iters[j].values = <<>>

\* C24: every block holds as many rows as the shortest of the slices taken
\* from the columns, at most 200000 and never none; once a column iterator
\* has nothing left the next call produces no block and the sequence is over,
\* and it is not over before; a dataframe of no rows or of no column gives no
\* block at all.
C24_RowsAndEnd ==
    [][/\ \A k \in 1..Len(i_sent') :
             /\ i_sent'[k].rows >= 1
             /\ i_sent'[k].rows <= BatchSize
             /\ \A n \in SliceLengths(k)' : i_sent'[k].rows <= n
             /\ i_sent'[k].rows \in SliceLengths(k)'
       /\ (i_pc = "loop" /\ SomeExhausted) => (i_sent' = i_sent /\ i_pc' = "done")
       /\ (i_pc = "loop" /\ i_pc' = "done" /\ i_result'.ok) => SomeExhausted
       /\ InsertedRows = 0 => i_sent' = <<>>]_vars

\* 350000 rows: the second call took what was left, 150000 rows, and the third
\* call found the iterators exhausted and ended the sequence.
C24_Witness ==
    /\ i_pc = "done"
    /\ i_result.ok
    /\ InsertedRows = 350000
    /\ Len(i_sent) = 2
    /\ SliceLengths(2) = {350000 - BatchSize}
    /\ SomeExhausted

\* C16 as stated: when insert_df has failed, none of the dataframe's rows have
\* reached the table.
C16_NoPartialWrite ==
    (i_pc = "done" /\ ~i_result.ok) => i_stored = <<>>

\* C13: insert_native_raw of the HTTP client fails with HttpError::Insertion
\* whatever it is given; the transport consumes and sends no block, so the
\* first block insert_df hands to it ends the insertion with that error.
C13_HttpInsertionUnsupported ==
    i_client = "http"
        => /\ i_stored = <<>>
           /\ Len(i_sent) <= 1
           /\ Len(i_sent) = 1
                 => /\ i_pc = "done"
                    /\ i_result.err = "HttpError"
                    /\ i_result.v = <<"Insertion">>

\* A dataframe of two blocks was given to the HTTP client: one block handed
\* over, none consumed, the insertion refused.
C13_Witness ==
    /\ i_client = "http"
    /\ InsertedRows = 350000
    /\ Len(i_sent) = 1
    /\ i_stored = <<>>
    /\ i_result.err = "HttpError"

(***************************************************************************)
(* Claims about the retrieval (checked under SpecQuery).                   *)
(***************************************************************************)
\* The response decodes to blocks only.
DecodesToBlocks == \A i \in 1..Len(q_response) : q_response[i].ok

\* What the stream returned by query_raw yields in all: what it has yielded and
\* what it still holds.
StreamInAll == q_emitted \o [i \in 1..Len(q_head) |-> Ok(q_head[i])] \o q_source

StreamExhausted == q_head = <<>> /\ q_source = <<>>

\* C3: of an HTTP response that decodes to b1, ..., bn the adapter's stream
\* yields b1, b1, b2, ..., bn in all, n + 1 items once exhausted; of a response
\* of zero bytes it yields nothing; and query_raw and the stream give no error.
C3_FirstBlockTwice ==
    (q_client = "http" /\ q_status = "ok" /\ DecodesToBlocks /\ q_pc # "start")
        => /\ StreamInAll = (IF q_response = <<>> THEN <<>>
                              ELSE <<q_response[1]>> \o q_response)
           /\ StreamExhausted => Len(q_emitted) = (IF q_response = <<>> THEN 0
                                                  ELSE Len(q_response) + 1)
           /\ \A i \in 1..Len(q_emitted) : q_emitted[i].ok
           /\ q_result.err \notin {"HttpError", "KlickhouseError"}

\* A response of two different blocks has been yielded as three items.
C3_Witness ==
    /\ q_client = "http"
    /\ q_pc = "done"
    /\ StreamExhausted
    /\ Len(q_response) = 2
    /\ DecodesToBlocks
    /\ q_response[1] # q_response[2]
    /\ q_emitted = <<q_response[1], q_response[1], q_response[2]>>

\* The columns of ch_types that received a row.
ColumnsWithRows == {q_series[i].name : i \in {j \in 1..Len(q_series) : q_series[j].val.data # <<>>}}

\* C4: when the stream has ended the result holds the schema columns that
\* received a row and no other; when none did, the operation succeeds with a
\* dataframe of no column and no row (the only failure left at the end of the
\* stream, MismatchingLengths, needs columns that received rows).
C4_EmptyColumnsDropped ==
    /\ (q_pc = "done" /\ q_result.ok)
          => /\ KeySet(flatten(q_result.v)) = ColumnsWithRows
             /\ ColumnsWithRows = {} => q_result.v = <<>>
    /\ (q_pc = "done" /\ q_result.err = "MismatchingLengths")
          => Cardinality(ColumnsWithRows) >= 2
    /\ (q_pc = "stream" /\ StreamExhausted /\ ColumnsWithRows = {})
          => FinishStream(q_series) = Ok(<<>>)

\* A column declared by `types` that no block carried is absent from a result
\* that has the other columns.
C4_Witness ==
    /\ q_pc = "done"
    /\ q_result.ok
    /\ <<"z">> \in KeySet(q_ch_types)
    /\ KeySet(q_result.v) = {<<"x">>, <<"y">>}

\* C5: an HTTP response of zero bytes gives the caller of get_df_query an empty
\* dataframe, not an error.
C5_HttpNoBytesIsEmptyFrame ==
    (q_pc = "done" /\ q_client = "http" /\ q_status = "ok" /\ q_response = <<>>)
        => q_result.ok /\ q_result.v = <<>>

SchemaLengths == {RLen(q_series[i].val.data) : i \in 1..Len(q_series)}
RowLengths == SchemaLengths \ {0}

\* The step that ends the accumulation.
EndOfAccumulation == q_pc = "stream" /\ StreamExhausted /\ q_pc' = "done"

\* C12 as stated: at the end of accumulation, schema columns of different
\* accumulated lengths make the operation fail with MismatchingLengths carrying
\* those lengths; no column is left out to settle a disagreement.
C12_LengthMismatch ==
    [][(EndOfAccumulation /\ Cardinality(SchemaLengths) > 1)
          => /\ q_result'.err = "MismatchingLengths"
             /\ q_result'.v = SchemaLengths]_vars

\* C12, amended: the columns that received no row are left out first; if the
\* others differ in length the operation fails with MismatchingLengths carrying
\* their lengths; a returned dataframe holds each of them whole, as accumulated,
\* so all its columns have one length.
C12_LengthMismatchOfColumnsWithRows ==
    [][EndOfAccumulation
          => /\ Cardinality(RowLengths) > 1
                   => /\ q_result'.err = "MismatchingLengths"
                      /\ q_result'.v = RowLengths
             /\ q_result'.ok
                   => LET cols == flatten(q_result'.v)
                      IN  /\ Cardinality({RLen(cols[i].val.data) : i \in 1..Len(cols)}) <= 1
                          /\ \A i \in 1..Len(cols) :
                                cols[i].val = Lookup(q_series, cols[i].name).val]_vars

\* Columns of one and of two rows ended the query with MismatchingLengths.
C12_Witness ==
    /\ q_pc = "done"
    /\ StreamExhausted
    /\ q_result.err = "MismatchingLengths"
    /\ q_result.v = {1, 2}
    /\ SchemaLengths = {1, 2}

\* The first block of the stream has been taken and gave the schema.
SchemaSettled == q_pc = "stream" \/ (q_pc = "done" /\ q_result.ok)

\* The type the merged schema gives a column of the first block: the caller's
\* override if there is one, else the type the server declared.
MergedType(entry) ==
    IF entry.name \in KeySet(q_types) THEN Lookup(q_types, entry.name).type
    ELSE ClickhouseTypeFrom(entry.type)

RECURSIVE DecodedAgainst(_, _, _)
\* The cells of column `name` in the blocks `items`, decoded as `type`.
DecodedAgainst(name, type, items) ==
    IF items = <<>> THEN <<>>
    ELSE LET data == Head(items).v.column_data
             here == IF name \in KeySet(data)
                     THEN values_to_series(Lookup(data, name).values, type).v.data
                     ELSE <<>>
         IN  RCat(here, DecodedAgainst(name, type, Tail(items)))

\* C14: the schema of the whole query is the first block's type map, each type
\* replaced by the caller's override of that name if there is one, the columns
\* in the first block's order; every later block is decoded against it, whatever
\* types that block declares.
C14_OverridesMerged ==
    SchemaSettled =>
        LET first == q_emitted[1].v.column_types
        IN  /\ Len(q_ch_types) >= Len(first)
            /\ \A i \in 1..Len(first) :
                  /\ q_ch_types[i].name = first[i].name
                  /\ q_ch_types[i].type = MergedType(first[i])
                  /\ q_series[i].name = first[i].name
                  /\ q_series[i].val.dtype = DataType_try_from(MergedType(first[i])).v
                  /\ q_series[i].val.data =
                        DecodedAgainst(first[i].name, MergedType(first[i]),
                                       SubSeq(q_emitted, 2, Len(q_emitted)))

\* Column y, declared UInt8 by every block and overridden as Bool, came back
\* as a Boolean column.
C14_Witness ==
    /\ q_pc = "done"
    /\ q_result.ok
    /\ q_types = <<TypeEntry(<<"y">>, <<"Bool">>)>>
    /\ Len(q_emitted) = 3
    /\ \A k \in 1..3 : TypeEntry(<<"y">>, <<"UInt8">>) \in Range(q_emitted[k].v.column_types)
    /\ \E i \in 1..Len(q_result.v) :
          /\ q_result.v[i].name = <<"y">>
          /\ q_result.v[i].val = SeriesData(<<"Boolean">>, <<Run(Cell(1), 2)>>)

\* The positions, in the column data of the last block taken from the stream,
\* of the columns the schema does not have.
UnknownColumns ==
    LET data == q_emitted[Len(q_emitted)].v.column_data
    IN  {i \in 1..Len(data) : data[i].name \notin KeySet(q_ch_types)}

\* A block after the first has been taken and holds a column the schema lacks.
UnknownColumnArrived ==
    /\ q_pc = "done"
    /\ Len(q_emitted) >= 2
    /\ q_emitted[Len(q_emitted)].ok
    /\ UnknownColumns # {}

FirstUnknown == CHOOSE i \in UnknownColumns : \A j \in UnknownColumns : i <= j

\* The columns of the last block that come before position i and do not
\* decode against the schema.
RefusedBefore(i) ==
    LET data == q_emitted[Len(q_emitted)].v.column_data
    IN  {j \in 1..(i - 1) :
            ~values_to_series(data[j].values, Lookup(q_ch_types, data[j].name).type).ok}

C26_HttpRowsOnce ==
    (q_client = "http" /\ q_pc = "done" /\ q_result.ok)
        => /\ \A i \in 1..Len(q_series) :
                 q_series[i].val.data =
                     DecodedAgainst(q_series[i].name, q_ch_types[i].type, q_response)
           /\ flatten(q_result.v) = SelectSeq(q_series, LAMBDA c : c.val.data # <<>>)

\* An HTTP response of a block of one row and a block of two rows: three
\* items read, three rows returned.
C26_Witness ==
    /\ q_client = "http"
    /\ q_pc = "done"
    /\ q_result.ok
    /\ [k \in 1..Len(q_response) |-> q_response[k].v.rows] = <<1, 2>>
    /\ Len(q_emitted) = 3
    /\ Len(q_result.v) = 2
    /\ \A i \in 1..Len(q_result.v) : RLen(q_result.v[i].val.data) = 3

\* The number of rows of a dataframe.
Height(df) == IF df = <<>> THEN 0 ELSE RLen(flatten(df)[1].val.data)

\* C29: the dataframe returned has as many rows as the second and later items
\* of the stream hold together, whatever the number of rows of the first: the
\* rows of the first item go nowhere.
C29_FirstBlockRowsSkipped ==
    (q_pc = "done" /\ q_result.ok)
        => Height(q_result.v)
             = SumRows([k \in 1..(Len(q_emitted) - 1) |-> q_emitted[k + 1].v])

\* The first block of the native stream held two rows and the second one row:
\* one row is returned.
C29_Witness ==
    /\ q_client = "native"
    /\ q_pc = "done"
    /\ q_result.ok
    /\ [k \in 1..Len(q_emitted) |-> q_emitted[k].v.rows] = <<2, 1>>
    /\ Height(q_result.v) = 1

(***************************************************************************)
(* Claims about ClientGeneric::query (checked under SpecRows).             *)
(***************************************************************************)

\* The rows of the blocks of the response, every block once, in order.
ResponseRows ==
    Concat([k \in 1..Len(q_response) |-> rows_of_item(q_response[k])])

\* C27 as stated: whichever the client, the stream of ClientGeneric::query
\* yields the rows of the blocks the server returned, every row once.
C27_RowsOncePerClient ==
    (q_pc = "done" /\ q_status = "ok" /\ DecodesToBlocks) => q_rows = ResponseRows

\* The same, of the native client alone.
NativeRowsOnce ==
    (q_pc = "done" /\ q_status = "ok" /\ DecodesToBlocks /\ q_client = "native")
        => q_rows = ResponseRows

(***************************************************************************)
(* Claims about operations issued together (checked under SpecConcurrent). *)
(***************************************************************************)

Failed(result) == ~result.ok /\ result.err # "pending"

\* The retrieval takes an item from the stream in this step.
TakesItem == Len(q_emitted') = Len(q_emitted) + 1

\* The insertion hands a block to the transport in this step.
SendsBlock == Len(i_sent') = Len(i_sent) + 1

\* C17: every error ends its operation.  A retrieval that takes an item which
\* is an error, or a block that does not decode, is done in that step with
\* that error as its result; from then on it takes nothing from the stream and
\* its result stays.  An insertion whose block the transport refuses is done in
\* that step with the transport's error; from then on it hands over no block,
\* the table gets nothing more and its result stays.  Every block is handed
\* over once: the blocks sent are those the table took and the one refused.
C17_ErrorsTerminal ==
    [][/\ Len(q_emitted') <= Len(q_emitted) + 1
       /\ (TakesItem /\ ~q_emitted'[Len(q_emitted')].ok)
             => /\ q_pc' = "done"
                /\ ~q_result'.ok
                /\ q_result'.err = q_emitted'[Len(q_emitted')].err
       /\ (TakesItem /\ q_pc = "stream" /\ q_emitted'[Len(q_emitted')].ok
              /\ ~ExtendSeries(q_series, q_ch_types,
                               q_emitted'[Len(q_emitted')].v.column_data).ok)
             => /\ q_pc' = "done"
                /\ q_result'.err \in {"MismatchingValueType", "MissingColumnLocal"}
       /\ Failed(q_result)
             => /\ q_pc = "done"
                /\ UNCHANGED queryVars
       /\ Len(i_sent') <= Len(i_sent) + 1
       /\ (SendsBlock /\ i_stored' = i_stored)
             => /\ i_pc' = "done"
                /\ i_result'.err \in {"KlickhouseError", "HttpError"}
       /\ Failed(i_result)
             => /\ i_pc = "done"
                /\ UNCHANGED insertVars
       /\ Len(i_sent') = Len(i_stored') + (IF SendsBlock /\ i_stored' = i_stored THEN 1 ELSE 0)
                                        + (Len(i_sent) - Len(i_stored))]_vars

\* Both operations have failed with more to do: the retrieval at the second
\* item of three, the insertion at the second block of three.
C17_Witness ==
    /\ q_pc = "done"
    /\ q_result.err = "KlickhouseError"
    /\ Len(q_response) = 3
    /\ Len(q_emitted) = 2
    /\ q_source # <<>>
    /\ i_pc = "done"
    /\ i_result.err = "KlickhouseError"
    /\ RLen(flatten(i_df)[1].val.data) = 2 * BatchSize + 1
    /\ Len(i_sent) = 2
    /\ Len(i_stored) = 1

\* Two results are the same result.
SameResult(a, b) ==
    /\ a.ok = b.ok
    /\ a.err = b.err
    /\ a.v = b.v

C2_RoundTrip ==
    (q_pc = "done" /\ i_result.ok /\ InsertedRows >= 1)
        => q_result.ok /\ q_result.v = i_df

RECURSIVE HasList(_)
HasList(cols) ==
    \E i \in 1..Len(cols) :
        IF cols[i].kind = "struct" THEN HasList(cols[i].fields)
        ELSE Head(cols[i].val.dtype) = "List"

\* The same of dataframes without list columns.
RoundTripWithoutLists ==
    (q_pc = "done" /\ i_result.ok /\ InsertedRows >= 1 /\ ~HasList(i_df))
        => q_result.ok /\ q_result.v = i_df

(***************************************************************************)
(* Claims about the struct flattener (checked under SpecStruct).           *)
(***************************************************************************)
RECURSIVE HasNestedStruct(_)
\* The columns of the ordered map m that unflatten is to keep at the top level,
\* by position: those without a dot, and the first of every prefix.
FirstOfPrefix(m, i) ==
    /\ ContainsDot(m[i].name)
    /\ \A j \in 1..(i - 1) :
          ~(ContainsDot(m[j].name) /\ SplitPrefix(m[j].name) = SplitPrefix(m[i].name))

TopLevelPositions(m) ==
    SelectSeq([i \in 1..Len(m) |-> i],
              LAMBDA i : ~ContainsDot(m[i].name) \/ FirstOfPrefix(m, i))

\* The output of unflatten is, column for column, what the positions kept of
\* m ask for: the untouched column, or the struct of the prefix.
PlacedAsAsked(m, out) ==
    LET kept == TopLevelPositions(m)
    IN  /\ Len(out) = Len(kept)
        /\ \A k \in 1..Len(kept) :
              IF ContainsDot(m[kept[k]].name)
              THEN /\ out[k].kind = "struct"
                   /\ out[k].name = <<SplitPrefix(m[kept[k]].name)>>
              ELSE out[k] = m[kept[k]]

\* C22 as stated: unflatten puts one struct column for every prefix where the
\* first column of that prefix was, and leaves every column without a dot as
\* it is and where it is, whatever the names.
C22_UnflattenPlacement ==
    s_pc = "done" => PlacedAsAsked(IndexMapCollect(s_flat), s_out)

HasNestedStruct(cols) ==
    \E i \in 1..Len(cols) :
        /\ cols[i].kind = "struct"
        /\ \E j \in 1..Len(cols[i].fields) : cols[i].fields[j].kind = "struct"

RECURSIVE LeavesUnder(_, _)
\* The leaves of a column in field order, each named by the path that leads to
\* it from the top-level column, `path` being the names above the column.
LeavesUnder(path, col) ==
    IF col.kind = "leaf" THEN <<Leaf(path \o col.name, col.val)>>
    ELSE Concat([i \in 1..Len(col.fields) |-> LeavesUnder(path \o col.name, col.fields[i])])

\* C23: flatten puts, in the place of every struct column, its leaves in field
\* order, each named by the dot-joined path from the top-level column to the
\* leaf; a column that is no struct stays as it is and where it is; no column
\* of the output is a struct.
C23_FlattenPaths ==
    s_pc # "start"
        => /\ s_flat = Concat([i \in 1..Len(s_df) |-> LeavesUnder(<<>>, s_df[i])])
           /\ \A i \in 1..Len(s_flat) : s_flat[i].kind = "leaf"
           /\ \A i \in 1..Len(s_df) : s_df[i].kind = "leaf" => s_df[i] \in Range(s_flat)

\* A column that is no struct before a struct with a struct inside: the leaf
\* two levels down is named by the three names of its path.
C23_Witness ==
    /\ s_pc # "start"
    /\ Len(s_df) = 2
    /\ s_df[1].kind = "leaf"
    /\ HasNestedStruct(s_df)
    /\ s_flat[1] = s_df[1]
    /\ s_flat[2].name = s_df[2].name \o s_df[2].fields[1].name \o s_df[2].fields[1].fields[1].name
    /\ Len(s_flat[2].name) = 3
    /\ Len(s_flat) = 3

====
